---- MODULE Spec2Model ----
(***************************************************************************)
(* Verification model of the VerseSense stress-dictionary pipeline:        *)
(*   - the lossless merge of per-source stores (transform/merger.py),      *)
(*   - the content-addressed per-source and merged caches,                 *)
(*   - the source parsers' record loops,                                   *)
(*   - the runtime stress resolver (nlp/pipeline/stress_resolver.py).      *)
(* Each component has its own specification over its own variables; the    *)
(* variables of the other components stay at their idle values.            *)
(***************************************************************************)
EXTENDS Integers, Sequences, FiniteSets, TLC

VARIABLES
    \* --- merge algebra (merge_linguistic_dicts / merge_caches_and_save_lmdb)
    inputs,        \* the per-source stores handed to the merger, in order
    merged,        \* merged store written by one pass over all inputs
    regrouped,     \* merged store of the same inputs, regrouped or reordered
    grouping,      \* "none" | "flat" | "left" | "right" | "reordered"
    \* --- per-source store build (stream_trie_to_lmdb / LMDBExporter)
    bpc,           \* position of the run inside the build
    source,        \* what the parser does for this hash: raise, or yield `rows`
                   \* entries under the headwords `keys`, in this order
    dirFiles,      \* names of the files in the store directory of this hash
    dataRows,      \* rows committed to data.mdb
    txnRows,       \* rows put in the open write transaction
    exportCount,   \* `count` of export_streaming
    compact,       \* <<rows>> of data.mdb in the compaction directory, or <<>>
    siblings,      \* stale store directories of the same prefix, other hashes
    sealed,        \* a build of this hash ran to its return statement
    acked,         \* rows of the batches committed by the running export
    lastCheck,     \* outcome of the latest cache check: "none" | "hit" | "miss"
    pruned,        \* sibling directories removed by the old-cache cleanup
    putKeys,       \* the keys handed to txn.put by the running export, in order
    \* --- merged-store cache (main, merge_caches_and_save_lmdb)
    srcHash,       \* content hash of every contributing input
    cacheDir,      \* the MERGED_* entries of the cache folder
    lastRun,       \* the latest merge run: operation, inputs, outcome
    \* --- the merge loop over stored records
    loopIn,        \* the stored records of every input environment
    mergedEnv,     \* rows committed to the merged environment
    loopTxn,       \* rows put in the open write transaction
    mergeCount,    \* `count` of the merge loop
    lpc,           \* "merging" | "done" | "aborted"
    \* --- source parsers' record loops
    parser,        \* "KAIKKI" | "TRIE" | "TXT"
    records,       \* the lines / trie values of the source, in file order
    idx,           \* records consumed so far
    emitted,       \* indices of the records whose forms were added
    ppc,           \* "running" | "done" | "aborted"
    callbacks,     \* the `current` argument of every progress_callback call
    \* --- stress resolver (StressResolver.resolve)
    token,         \* the TokenData being resolved
    candidates,    \* stress_service.lookup(token.text_normalized)
    result,        \* the dict resolve() returned
    \* --- binary value decoder (_char_positions_to_vowel_indices)
    dword,         \* the trie key whose value is dout
    stored,        \* the accent positions stored in the value, in byte order
    dout,          \* what _char_positions_to_vowel_indices returned or raised
    \* --- variant classifier (determine_variant_type)
    cforms,        \* the final form list of the headword being classified
    labels,        \* the labels determine_variant_type returned, call by call
    \* --- a parser worker and its coordinator (parser_worker, parse_trie_worker)
    wkind,         \* the worker function the process runs
    wparse,        \* what the parser of this worker does: raise, or parse `rows` rows
    parsed,        \* rows the parser has gone through
    progressQ,     \* the progress queue, oldest message first
    resultQ,       \* the result queue, oldest message first
    received,      \* the result messages the coordinator has taken
    finished,      \* the coordinator has seen the finish signal
    wpc,           \* "parsing" | "done"
    \* --- stress extraction of the parsers for the forms of one headword
    fsrc,          \* the parser: "TXT" | "KAIKKI" | "TRIE"
    fin,           \* the raw forms the source holds for one headword, in file order
    fmode,         \* the branch merge_wordforms takes for the headword
    fout,          \* the WordForms the parser emits for the headword
    \* --- run_parsers_concurrently_mp with its worker processes
    procs,         \* per parser: its worker process and what its parser does
    pq,            \* progress_queue, oldest message first
    rq,            \* result_queue, oldest message first
    running,       \* names of the processes in the list `running`
    cidx,          \* `idx`: parsers the coordinator has started
    finished_count, \* finish signals the coordinator has read
    results,       \* result messages the coordinator has collected
    cpc,           \* "schedule" | "collect" | "returned" | "raised"
    \* --- stream_kaikki_to_lmdb: periodic flushes into the store
    klines,        \* the headword of every line of the source, in file order
    kidx,          \* lines read so far
    pending,       \* the dictionary word_entries of entry_iter: headword -> forms
    kstore,        \* the store being written: headword -> forms of the latest put
    kpc,           \* "reading" | "done"
    \* --- SQLExporter: one insert batch of the relational export
    sqlIn,         \* the entries of one insert batch: per entry its forms, per form its feats
    sqlOut         \* what _insert_batches wrote to the feature table, or that it raised

mergeVars == <<inputs, merged, regrouped, grouping>>
buildVars == <<bpc, source, dirFiles, dataRows, txnRows, exportCount, compact,
               siblings, sealed, acked, lastCheck, pruned, putKeys>>
runVars == <<srcHash, cacheDir, lastRun>>
loopVars == <<loopIn, mergedEnv, loopTxn, mergeCount, lpc>>
parseVars == <<parser, records, idx, emitted, ppc, callbacks>>
resolveVars == <<token, candidates, result>>
decodeVars == <<dword, stored, dout>>
classifyVars == <<cforms, labels>>
workerVars == <<wkind, wparse, parsed, progressQ, resultQ, received,
                finished, wpc>>
formsVars == <<fsrc, fin, fmode, fout>>
poolVars == <<procs, pq, rq, running, cidx, finished_count, results, cpc>>
flushVars == <<klines, kidx, pending, kstore, kpc>>
sqlVars == <<sqlIn, sqlOut>>
vars == <<mergeVars, buildVars, runVars, loopVars, parseVars, resolveVars,
          decodeVars, classifyVars, workerVars, formsVars, poolVars,
          flushVars, sqlVars>>

(***************************************************************************)
(* Generic helpers                                                         *)
(***************************************************************************)
Range(s) == {s[i] : i \in DOMAIN s}

Min(S) == CHOOSE x \in S : \A y \in S : x <= y

\* Python's sorted() on a list of ints: ascending, duplicates kept.
RECURSIVE Insert(_, _)
Insert(x, s) ==
    IF s = <<>> THEN <<x>>
    ELSE IF x <= Head(s) THEN <<x>> \o s
    ELSE <<Head(s)>> \o Insert(x, Tail(s))

RECURSIVE sorted(_)
sorted(s) == IF s = <<>> THEN <<>> ELSE Insert(Head(s), sorted(Tail(s)))

\* Ascending sequence of a finite set of ints (LMDB cursor order of the keys).
RECURSIVE SortedKeys(_)
SortedKeys(S) ==
    IF S = {} THEN <<>>
    ELSE LET m == Min(S) IN <<m>> \o SortedKeys(S \ {m})

\* str.lower(), character by character.
lower(word) ==
    [i \in DOMAIN word |->
        CASE word[i] = "Z" -> "z" [] word[i] = "A" -> "a"
          [] word[i] = "O" -> "o" [] word[i] = "K" -> "k"
          [] OTHER -> word[i]]

(***************************************************************************)
(* Data model (transform/data_unifier.py)                                  *)
(***************************************************************************)
\* WordForm.model_dump(): every WordForm dumps the same set of fields.
EmptyMeta == [k \in {} |-> 0]

WordForm(p, st, d) ==
    [pos |-> p, feats |-> EmptyMeta, stress_indices |-> st, main_definition |-> d]

\* LinguisticEntry
LinguisticEntry(w, fs, psi, m) ==
    [word |-> w, forms |-> fs, possible_stress_indices |-> psi, meta |-> m]

\* A store maps the headwords it holds to their entry; LMDB keeps keys sorted.
EmptyStore == [k \in {} |-> 0]

Put(store, key, value) ==
    [k \in DOMAIN store \cup {key} |-> IF k = key THEN value ELSE store[k]]

(***************************************************************************)
(* merge_linguistic_dicts                                                  *)
(***************************************************************************)
\* Variant of covers that leaves stress_indices out of the comparison.
covers_ignoring_stress(form_a, form_b) ==
    \A k \in DOMAIN form_b \ {"stress_indices"} :
        k \in DOMAIN form_a /\ form_a[k] = form_b[k]

\* covers(form_a, form_b): all fields of b are in a and equal.
covers(form_a, form_b) ==
    \A k \in DOMAIN form_b : k \in DOMAIN form_a /\ form_a[k] = form_b[k]

\* Variant of the inner loop in which `add` starts False: a form that no
\* existing form matches is never appended.
MergeOneForm_add_false(existing_forms, wf) ==
    LET hits == {i \in DOMAIN existing_forms :
                    covers(wf, existing_forms[i]) \/ covers(existing_forms[i], wf)}
    IN  IF hits = {} THEN existing_forms
        ELSE LET i == Min(hits)
             IN  IF covers(wf, existing_forms[i])
                 THEN [existing_forms EXCEPT ![i] = wf]
                 ELSE existing_forms

\* The inner loop over existing_forms for one incoming WordForm wf:
\* the first existing form that wf covers is replaced by wf; if an existing
\* form covers wf first, wf is dropped; otherwise wf is appended.
MergeOneForm(existing_forms, wf) ==
    LET hits == {i \in DOMAIN existing_forms :
                    covers(wf, existing_forms[i]) \/ covers(existing_forms[i], wf)}
    IN  IF hits = {} THEN Append(existing_forms, wf)
        ELSE LET i == Min(hits)
             IN  IF covers(wf, existing_forms[i])
                 THEN [existing_forms EXCEPT ![i] = wf]
                 ELSE existing_forms

RECURSIVE MergeForms(_, _)
MergeForms(existing_forms, new_forms) ==
    IF new_forms = <<>> THEN existing_forms
    ELSE MergeForms(MergeOneForm(existing_forms, Head(new_forms)), Tail(new_forms))

\* Variant of the possible_stress_indices merge that keeps the list of the
\* first entry and appends nothing.
MergePsi_keep_first(psi, arrs) == psi

\* possible_stress_indices: append sorted(arr) unless some x has sorted(x) equal.
RECURSIVE MergePsi(_, _)
MergePsi(psi, arrs) ==
    IF arrs = <<>> THEN psi
    ELSE LET arr_sorted == sorted(Head(arrs))
         IN  IF \E i \in DOMAIN psi : sorted(psi[i]) = arr_sorted
             THEN MergePsi(psi, Tail(arrs))
             ELSE MergePsi(Append(psi, arr_sorted), Tail(arrs))

\* dict.update: keys of the newer map win.
MetaUpdate(old, new) ==
    [k \in DOMAIN old \cup DOMAIN new |-> IF k \in DOMAIN new THEN new[k] ELSE old[k]]

\* The else-branch of merge_linguistic_dicts for a lemma already in `merged`.
MergeEntryInto(m, e) ==
    [word |-> m.word,
     forms |-> MergeForms(m.forms, e.forms),
     possible_stress_indices |->
         MergePsi(m.possible_stress_indices, e.possible_stress_indices),
     meta |-> MetaUpdate(m.meta, e.meta)]

\* merge_linguistic_dicts restricted to one lemma: the first entry is copied,
\* every later entry is merged into it.
RECURSIVE FoldEntries(_, _)
FoldEntries(m, entries) ==
    IF entries = <<>> THEN m
    ELSE FoldEntries(MergeEntryInto(m, Head(entries)), Tail(entries))

\* merge_linguistic_dicts(dicts): dicts is a sequence of lemma -> entry maps.
merge_linguistic_dicts(dicts) ==
    LET lemmas == UNION {DOMAIN dicts[i] : i \in DOMAIN dicts}
        holders(l) == SelectSeq([i \in DOMAIN dicts |-> i],
                                LAMBDA i : l \in DOMAIN dicts[i])
        entriesOf(l) == [j \in DOMAIN holders(l) |-> dicts[holders(l)[j]][l]]
    IN  [l \in lemmas |-> FoldEntries(Head(entriesOf(l)), Tail(entriesOf(l)))]

(***************************************************************************)
(* merge_caches_and_save_lmdb: the streaming k-way merge                   *)
(***************************************************************************)
\* stream_lmdb_entries: the (lemma, entry) pairs of one store in key order.
stream_lmdb_entries(store) ==
    LET ks == SortedKeys(DOMAIN store)
    IN  [i \in DOMAIN ks |-> <<ks[i], store[ks[i]]>>]

\* heapq.merge(*streams, key=lambda x: x[0]): repeatedly emits the smallest
\* head; among equal keys the stream given first wins (the merge is stable).
RECURSIVE heapq_merge(_)
heapq_merge(streams) ==
    LET live == {i \in DOMAIN streams : streams[i] # <<>>}
    IN  IF live = {} THEN <<>>
        ELSE LET best == CHOOSE i \in live : \A j \in live :
                            \/ Head(streams[i])[1] < Head(streams[j])[1]
                            \/ Head(streams[i])[1] = Head(streams[j])[1] /\ i <= j
             IN  <<Head(streams[best])>>
                 \o heapq_merge([streams EXCEPT ![best] = Tail(streams[best])])

\* itertools.groupby(..., key=lambda x: x[0]): runs of consecutive equal keys.
RECURSIVE groupby(_)
groupby(items) ==
    IF items = <<>> THEN <<>>
    ELSE LET rest == groupby(Tail(items))
             k == Head(items)[1]
             e == Head(items)[2]
         IN  IF rest # <<>> /\ Head(rest).lemma = k
             THEN <<[lemma |-> k, entries |-> <<e>> \o Head(rest).entries]>> \o Tail(rest)
             ELSE <<[lemma |-> k, entries |-> <<e>>]>> \o rest

\* [{lemma: e} for e in entries]
SingletonDicts(lemma, entries) ==
    [i \in DOMAIN entries |-> [l \in {lemma} |-> entries[i]]]

\* per_lemma_merge(existing, new) of merge_caches_and_save_lmdb
per_lemma_merge(existing, new) ==
    merge_linguistic_dicts(<<[l \in {existing.word} |-> existing],
                             [l \in {new.word} |-> new]>>)[existing.word]

\* Body of the loop over the key groups: what is put under `lemma`.
MergeGroupValue(out, lemma, entries) ==
    IF lemma \in DOMAIN out
    THEN IF Len(entries) = 1
         THEN per_lemma_merge(out[lemma], entries[1])
         ELSE per_lemma_merge(out[lemma],
                  merge_linguistic_dicts(SingletonDicts(lemma, entries))[lemma])
    ELSE IF Len(entries) = 1
         THEN entries[1]
         ELSE merge_linguistic_dicts(SingletonDicts(lemma, entries))[lemma]

RECURSIVE WriteGroups(_, _)
WriteGroups(out, groups) ==
    IF groups = <<>> THEN out
    ELSE WriteGroups(Put(out, Head(groups).lemma,
                         MergeGroupValue(out, Head(groups).lemma, Head(groups).entries)),
                     Tail(groups))

\* The merged store a complete run of merge_caches_and_save_lmdb writes.
MergeStores(lmdb_dirs) ==
    WriteGroups(EmptyStore,
                groupby(heapq_merge([i \in DOMAIN lmdb_dirs |->
                                        stream_lmdb_entries(lmdb_dirs[i])])))

(***************************************************************************)
(* Inputs of the merge: the stores the parsers leave in the cache          *)
(***************************************************************************)
\* Longest form list of one input entry.
MaxForms == 2

\* The three sources TXT, TRIE, KAIKKI.
NumStores == 3

\* Headwords, as their rank in the byte order of their UTF-8 keys.
Keys == {1, 2}

FormPool ==
    {WordForm("NOUN", <<0>>, "none"), WordForm("NOUN", <<1>>, "none"),
     WordForm("VERB", <<0>>, "none")}

\* Form lists of one entry of the TXT or the TRIE parser, in parse order:
\* both add a form only when the entry holds no equal one.
FormLists ==
    UNION {{fs \in [1..n -> FormPool] : \A i, j \in 1..n : i # j => fs[i] # fs[j]}
           : n \in 1..MaxForms}

\* Form lists of one entry of the KAIKKI parser: it appends one form per
\* form record of the JSON line without comparing it with the forms it has,
\* so a repeated record gives the same form twice.
KaikkiFormLists == UNION {[1..n -> FormPool] : n \in 1..MaxForms}

\* possible_stress_indices as the parsers derive it from the forms:
\* the unique sorted stress arrays in first-seen order.
RECURSIVE unique_stress_arrays(_)
unique_stress_arrays(forms) ==
    IF forms = <<>> THEN <<>>
    ELSE LET prev == unique_stress_arrays(SubSeq(forms, 1, Len(forms) - 1))
             sorted_indices == sorted(forms[Len(forms)].stress_indices)
         IN  IF \E i \in DOMAIN prev : sorted(prev[i]) = sorted_indices
             THEN prev
             ELSE Append(prev, sorted_indices)

\* Entries a store may hold for headword k, as the parsers build them (their
\* meta is always empty).  The first headword carries the varied form lists;
\* the other headwords carry one form and vary in which stores hold them.
EntryPool(k) ==
    IF k = 1
    THEN {LinguisticEntry(k, fs, unique_stress_arrays(fs), EmptyMeta) : fs \in FormLists}
    ELSE {LinguisticEntry(k, <<WordForm("VERB", <<0>>, "none")>>, <<<<0>>>>, EmptyMeta)}

StorePool ==
    UNION {{st \in [D -> UNION {EntryPool(k) : k \in D}] :
                \A k \in D : st[k] \in EntryPool(k)}
           : D \in SUBSET Keys}

\* The stores the KAIKKI parser may leave: as StorePool, with the form lists
\* of the first headword drawn from KaikkiFormLists.
KaikkiStorePool ==
    LET pool(k) ==
            IF k = 1
            THEN {LinguisticEntry(k, fs, unique_stress_arrays(fs), EmptyMeta) :
                     fs \in KaikkiFormLists}
            ELSE EntryPool(k)
    IN  UNION {{st \in [D -> UNION {pool(k) : k \in D}] :
                    \A k \in D : st[k] \in pool(k)}
               : D \in SUBSET Keys}

(***************************************************************************)
(* Idle values: a specification of one component keeps the others here     *)
(***************************************************************************)
Idle(c) ==
    /\ c = "merge" \/ /\ inputs = <<>>
                       /\ merged = EmptyStore
                       /\ regrouped = EmptyStore
                       /\ grouping = "none"
    /\ c = "build" \/ /\ bpc = "idle"
                       /\ source = [raises |-> FALSE, rows |-> 0, keys |-> <<>>]
                       /\ dirFiles = {}
                       /\ dataRows = {}
                       /\ txnRows = {}
                       /\ exportCount = 0
                       /\ compact = <<>>
                       /\ siblings = {}
                       /\ sealed = FALSE
                       /\ acked = {}
                       /\ lastCheck = "none"
                       /\ pruned = {}
                       /\ putKeys = <<>>
    /\ c = "run" \/ /\ srcHash = <<>>
                     /\ cacheDir = {}
                     /\ lastRun = <<>>
    /\ c = "loop" \/ /\ loopIn = <<>>
                      /\ mergedEnv = EmptyStore
                      /\ loopTxn = EmptyStore
                      /\ mergeCount = 0
                      /\ lpc = "done"
    /\ c = "parse" \/ /\ parser = "none"
                       /\ records = <<>>
                       /\ idx = 0
                       /\ emitted = {}
                       /\ ppc = "done"
                       /\ callbacks = <<>>
    /\ c = "resolve" \/ /\ token = <<>>
                         /\ candidates = <<>>
                         /\ result = <<>>
    /\ c = "decode" \/ /\ dword = <<>>
                       /\ stored = <<>>
                       /\ dout = <<>>
    /\ c = "classify" \/ /\ cforms = <<>>
                         /\ labels = <<>>
    /\ c = "worker" \/ /\ wkind = "none"
                       /\ wparse = [raises |-> FALSE, rows |-> 0]
                       /\ parsed = 0
                       /\ progressQ = <<>>
                       /\ resultQ = <<>>
                       /\ received = <<>>
                       /\ finished = FALSE
                       /\ wpc = "done"
    /\ c = "forms" \/ /\ fsrc = "none"
                      /\ fin = <<>>
                      /\ fmode = "plain"
                      /\ fout = [done |-> FALSE, raises |-> FALSE, forms |-> <<>>]
    /\ c = "pool" \/ /\ procs = <<>>
                     /\ pq = <<>>
                     /\ rq = <<>>
                     /\ running = <<>>
                     /\ cidx = 0
                     /\ finished_count = 0
                     /\ results = <<>>
                     /\ cpc = "returned"
    /\ c = "flush" \/ /\ klines = <<>>
                      /\ kidx = 0
                      /\ pending = EmptyStore
                      /\ kstore = EmptyStore
                      /\ kpc = "done"
    /\ c = "sql" \/ /\ sqlIn = <<>>
                    /\ sqlOut = [done |-> FALSE, raises |-> FALSE, features |-> <<>>]

notMerge == <<buildVars, runVars, loopVars, parseVars, resolveVars,
              decodeVars, classifyVars, workerVars, formsVars, poolVars,
              flushVars, sqlVars>>
notBuild == <<mergeVars, runVars, loopVars, parseVars, resolveVars,
              decodeVars, classifyVars, workerVars, formsVars, poolVars,
              flushVars, sqlVars>>
notRun == <<mergeVars, buildVars, loopVars, parseVars, resolveVars,
            decodeVars, classifyVars, workerVars, formsVars, poolVars,
            flushVars, sqlVars>>
notLoop == <<mergeVars, buildVars, runVars, parseVars, resolveVars,
             decodeVars, classifyVars, workerVars, formsVars, poolVars,
             flushVars, sqlVars>>
notParse == <<mergeVars, buildVars, runVars, loopVars, resolveVars,
              decodeVars, classifyVars, workerVars, formsVars, poolVars,
              flushVars, sqlVars>>
notResolve == <<mergeVars, buildVars, runVars, loopVars, parseVars,
                decodeVars, classifyVars, workerVars, formsVars, poolVars,
                flushVars, sqlVars>>
notDecode == <<mergeVars, buildVars, runVars, loopVars, parseVars,
               resolveVars, classifyVars, workerVars, formsVars, poolVars,
               flushVars, sqlVars>>
notClassify == <<mergeVars, buildVars, runVars, loopVars, parseVars,
                 resolveVars, decodeVars, workerVars, formsVars, poolVars,
                 flushVars, sqlVars>>
notWorker == <<mergeVars, buildVars, runVars, loopVars, parseVars,
               resolveVars, decodeVars, classifyVars, formsVars, poolVars,
               flushVars, sqlVars>>
notForms == <<mergeVars, buildVars, runVars, loopVars, parseVars,
              resolveVars, decodeVars, classifyVars, workerVars, poolVars,
              flushVars, sqlVars>>
notPool == <<mergeVars, buildVars, runVars, loopVars, parseVars, resolveVars,
             decodeVars, classifyVars, workerVars, formsVars, flushVars,
             sqlVars>>
notFlush == <<mergeVars, buildVars, runVars, loopVars, parseVars,
              resolveVars, decodeVars, classifyVars, workerVars, formsVars,
              poolVars, sqlVars>>
notSql == <<mergeVars, buildVars, runVars, loopVars, parseVars, resolveVars,
            decodeVars, classifyVars, workerVars, formsVars, poolVars,
            flushVars>>

(***************************************************************************)
(* Specification of the merge algebra                                      *)
(***************************************************************************)
MergeInit ==
    /\ \E txt \in StorePool, trie \in StorePool, kaikki \in KaikkiStorePool :
          inputs = <<txt, trie, kaikki>>
    /\ merged = EmptyStore
    /\ regrouped = EmptyStore
    /\ grouping = "none"
    /\ Idle("merge")

\* merge_caches_and_save_lmdb([A, B, C])
MergeFlat ==
    /\ grouping = "none"
    /\ merged' = MergeStores(inputs)
    /\ grouping' = "flat"
    /\ UNCHANGED <<inputs, regrouped, notMerge>>

\* merge_caches_and_save_lmdb([merge_caches_and_save_lmdb([A, B]), C])
MergeLeftGrouped ==
    /\ grouping = "flat"
    /\ regrouped' = MergeStores(<<MergeStores(<<inputs[1], inputs[2]>>), inputs[3]>>)
    /\ grouping' = "left"
    /\ UNCHANGED <<inputs, merged, notMerge>>

\* merge_caches_and_save_lmdb([A, merge_caches_and_save_lmdb([B, C])])
MergeRightGrouped ==
    /\ grouping = "flat"
    /\ regrouped' = MergeStores(<<inputs[1], MergeStores(<<inputs[2], inputs[3]>>)>>)
    /\ grouping' = "right"
    /\ UNCHANGED <<inputs, merged, notMerge>>

\* Every order of the stores other than the given one.
Reorderings ==
    {o \in [1..NumStores -> 1..NumStores] :
        /\ \A i, j \in 1..NumStores : i # j => o[i] # o[j]
        /\ \E i \in 1..NumStores : o[i] # i}

\* merge_caches_and_save_lmdb over the same stores listed in another order
MergeReordered ==
    /\ grouping = "flat"
    /\ \E o \in Reorderings :
          regrouped' = MergeStores([i \in 1..NumStores |-> inputs[o[i]]])
    /\ grouping' = "reordered"
    /\ UNCHANGED <<inputs, merged, notMerge>>

MergeNext == MergeFlat \/ MergeLeftGrouped \/ MergeRightGrouped \/ MergeReordered

SpecMerge == MergeInit /\ [][MergeNext]_vars

(***************************************************************************)
(* Properties of the merge                                                 *)
(***************************************************************************)
SameExceptStress(a, b) ==
    /\ DOMAIN a = DOMAIN b
    /\ \A k \in DOMAIN a \ {"stress_indices"} : a[k] = b[k]

StressSet(f) == Range(f.stress_indices)

Holders(k) == {i \in 1..NumStores : k \in DOMAIN inputs[i]}

\* C1: when two input stores hold, for one headword, WordForms equal on every
\* field except stress_indices, the merged entry has exactly one WordForm for
\* them and its stress_indices contain the union of both.
C1_StressUnion ==
    grouping # "none" =>
        \A k \in DOMAIN merged : \A i, j \in Holders(k) :
            i # j =>
                \A a \in Range(inputs[i][k].forms), b \in Range(inputs[j][k].forms) :
                    (SameExceptStress(a, b) /\ StressSet(a) # StressSet(b)) =>
                        LET same == {n \in DOMAIN merged[k].forms :
                                        SameExceptStress(merged[k].forms[n], a)}
                        IN  /\ Cardinality(same) = 1
                            /\ \A n \in same :
                                  StressSet(a) \cup StressSet(b)
                                      \subseteq StressSet(merged[k].forms[n])

C3_MergeTotality ==
    grouping # "none" =>
        LET written == groupby(heapq_merge([i \in 1..NumStores |->
                                               stream_lmdb_entries(inputs[i])]))
        IN  /\ \A m, n \in DOMAIN written :
                  m # n => written[m].lemma # written[n].lemma
            /\ DOMAIN merged = UNION {DOMAIN inputs[i] : i \in 1..NumStores}
            /\ \A i \in 1..NumStores : \A k \in DOMAIN inputs[i] :
                  /\ k \in DOMAIN merged
                  /\ \A f \in Range(inputs[i][k].forms) :
                        \E g \in Range(merged[k].forms) :
                            SameExceptStress(g, f) /\ StressSet(f) \subseteq StressSet(g)

\* A merged store with one headword from several stores with different forms
\* and another headword held by a single store.
C3_Witness ==
    /\ grouping = "flat"
    /\ \E k \in DOMAIN merged :
          /\ Cardinality(Holders(k)) >= 2
          /\ \E i, j \in Holders(k) : inputs[i][k].forms # inputs[j][k].forms
          /\ Len(merged[k].forms) >= 3
    /\ \E k \in DOMAIN merged : Cardinality(Holders(k)) = 1

(***************************************************************************)
(* Per-source store build: stream_trie_to_lmdb (stream_txt_to_lmdb is the  *)
(* same code) around LMDBExporter.export_streaming, one step per action,   *)
(* with the process able to die between any two steps.                     *)
(***************************************************************************)
\* Rows per commit (batch_size of export_streaming and of the merge loop),
\* scaled down.
batch_size == 2

\* Most rows the parser yields for one source.
MaxRows == 3

\* Hashes of earlier contents of the source, whose stores may still exist.
StaleHashes == {1, 2}

\* The orders in which a parser yields its entries: one entry per headword,
\* in the order the headwords were first met in the source (the items() of
\* the dictionary the parser fills), which the source file decides.
YieldOrders ==
    {ks \in UNION {[1..n -> 1..MaxRows] : n \in 1..MaxRows} :
        \A i, j \in DOMAIN ks : i # j => ks[i] # ks[j]}

BuildInit ==
    /\ bpc = "idle"
    /\ source \in {[raises |-> TRUE, rows |-> 0, keys |-> <<>>]}
                  \cup {[raises |-> FALSE, rows |-> Len(ks), keys |-> ks] :
                            ks \in YieldOrders}
    /\ dirFiles = {}
    /\ dataRows = {}
    /\ txnRows = {}
    /\ exportCount = 0
    /\ compact = <<>>
    /\ siblings \in SUBSET StaleHashes
    /\ sealed = FALSE
    /\ acked = {}
    /\ lastCheck = "none"
    /\ pruned = {}
    /\ putKeys = <<>>
    /\ Idle("build")

\* Rows a reader of the store directory gets.
ReadableRows == IF "data.mdb" \in dirFiles THEN dataRows ELSE {}

\* A run starts: `if os.path.exists(lmdb_dir) and os.listdir(lmdb_dir)` returns
\* the directory as a cache hit; otherwise the build goes on.
CacheCheck ==
    /\ bpc \in {"idle", "failed", "crashed"}
    /\ IF dirFiles # {}
       THEN lastCheck' = "hit" /\ bpc' = "idle"
       ELSE lastCheck' = "miss" /\ bpc' = "miss"
    /\ UNCHANGED <<source, dirFiles, dataRows, txnRows, exportCount, compact,
                   siblings, sealed, acked, pruned, putKeys, notBuild>>

\* export_streaming up to env.begin: overwrite unlinks data.mdb, the directory
\* is made and lmdb.open creates data.mdb and lock.mdb of an empty store.
ExportOpen ==
    /\ bpc = "miss"
    /\ dirFiles' = {"data.mdb", "lock.mdb"}
    /\ dataRows' = {}
    /\ txnRows' = {}
    /\ exportCount' = 0
    /\ acked' = {}
    /\ sealed' = FALSE
    /\ putKeys' = <<>>
    /\ bpc' = "opened"
    /\ UNCHANGED <<source, compact, siblings, lastCheck, pruned, notBuild>>

\* First next() of data_iter runs the whole parser; if it raises, the
\* `finally` closes the environment and the exception leaves the run.
ParserRun ==
    /\ bpc = "opened"
    /\ bpc' = IF source.raises THEN "failed" ELSE "putting"
    /\ UNCHANGED <<source, dirFiles, dataRows, txnRows, exportCount, compact,
                   siblings, sealed, acked, lastCheck, pruned, putKeys, notBuild>>

\* One iteration of the put loop: put, count, commit on a full batch.
PutRow ==
    /\ bpc = "putting"
    /\ exportCount < source.rows
    /\ exportCount' = exportCount + 1
    /\ putKeys' = Append(putKeys, source.keys[exportCount'])
    /\ IF exportCount' % batch_size = 0
       THEN /\ dataRows' = dataRows \cup txnRows \cup {exportCount'}
            /\ txnRows' = {}
            /\ acked' = dataRows'
       ELSE /\ txnRows' = txnRows \cup {exportCount'}
            /\ UNCHANGED <<dataRows, acked>>
    /\ UNCHANGED <<bpc, source, dirFiles, compact, siblings, sealed, lastCheck,
                   pruned, notBuild>>

\* The iterator is exhausted: final txn.commit() and env.close().
FinalCommit ==
    /\ bpc = "putting"
    /\ exportCount = source.rows
    /\ dataRows' = dataRows \cup txnRows
    /\ txnRows' = {}
    /\ acked' = dataRows'
    /\ bpc' = "closed"
    /\ UNCHANGED <<source, dirFiles, exportCount, compact, siblings, sealed,
                   lastCheck, pruned, putKeys, notBuild>>

\* env.copy(compact_dir, compact=True): a compacted data.mdb in a temp dir.
CompactCopy ==
    /\ bpc = "closed"
    /\ compact' = <<dataRows>>
    /\ bpc' = "copied"
    /\ UNCHANGED <<source, dirFiles, dataRows, txnRows, exportCount, siblings,
                   sealed, acked, lastCheck, pruned, putKeys, notBuild>>

\* orig.unlink() of data.mdb
UnlinkOrig ==
    /\ bpc = "copied"
    /\ dirFiles' = dirFiles \ {"data.mdb"}
    /\ dataRows' = {}
    /\ bpc' = "unlinked"
    /\ UNCHANGED <<source, txnRows, exportCount, compact, siblings, sealed,
                   acked, lastCheck, pruned, putKeys, notBuild>>

\* shutil.move(compacted, orig) of data.mdb; no lock.mdb was copied, so the
\* second pass of the loop does nothing; the temp dir is removed.
MoveCompacted ==
    /\ bpc = "unlinked"
    /\ dirFiles' = dirFiles \cup {"data.mdb"}
    /\ dataRows' = compact[1]
    /\ compact' = <<>>
    /\ bpc' = "moved"
    /\ UNCHANGED <<source, txnRows, exportCount, siblings, sealed, acked,
                   lastCheck, pruned, putKeys, notBuild>>

\* Back in stream_trie_to_lmdb without the old-cache cleanup.
CleanupAndReturn_no_cleanup ==
    /\ bpc = "moved"
    /\ sealed' = TRUE
    /\ bpc' = "idle"
    /\ UNCHANGED <<source, dirFiles, dataRows, txnRows, exportCount, compact,
                   siblings, acked, lastCheck, pruned, putKeys, notBuild>>

\* Back in stream_trie_to_lmdb: every directory <prefix>_*_lmdb of the cache
\* folder whose name is not the one just built is removed with
\* shutil.rmtree, and the run returns the directory.
CleanupAndReturn ==
    /\ bpc = "moved"
    /\ siblings' = {}
    /\ pruned' = pruned \cup siblings
    /\ sealed' = TRUE
    /\ bpc' = "idle"
    /\ UNCHANGED <<source, dirFiles, dataRows, txnRows, exportCount, compact,
                   acked, lastCheck, putKeys, notBuild>>

\* The process dies inside the build: the open transaction is lost, the
\* files stay as they are.
Crash ==
    /\ bpc \in {"opened", "putting", "closed", "copied", "unlinked", "moved"}
    /\ txnRows' = {}
    /\ bpc' = "crashed"
    /\ UNCHANGED <<source, dirFiles, dataRows, exportCount, compact, siblings,
                   sealed, acked, lastCheck, pruned, putKeys, notBuild>>

BuildNext ==
    \/ CacheCheck \/ ExportOpen \/ ParserRun \/ PutRow \/ FinalCommit
    \/ CompactCopy \/ UnlinkOrig \/ MoveCompacted \/ CleanupAndReturn \/ Crash

SpecBuild == BuildInit /\ [][BuildNext]_vars

\* C4: a run takes the store as a cache hit only if a build of this hash
\* completed and left a non-empty store holding every row of the source.
C4_HitOnlyOnCompleteStore ==
    lastCheck = "hit" =>
        /\ sealed
        /\ ReadableRows # {}
        /\ ReadableRows = 1..source.rows

\* C6: after a crash at any point of an export, every row of every batch
\* committed before the crash is still readable from the store.
C6_CrashKeepsCommittedBatches ==
    bpc = "crashed" => acked \subseteq ReadableRows

C23_WritesInKeyOrder ==
    \A i \in 1..(Len(putKeys) - 1) : putKeys[i] <= putKeys[i + 1]

MaxVersion == 2

\* What a path handed to merge_caches_and_save_lmdb is on disk.
PathKinds == {"missing", "dir", "file"}

\* The merged key hashes the contents of all inputs: one key per srcHash.
compute_merged_cache_key(hashes) == hashes

MergedEntry(key, flavour) == [key |-> key, flavour |-> flavour]

\* Variant of the input checks that passes over a missing path.
InputError_skip_missing(kinds) ==
    LET hashErr(i) == IF kinds[i] = "dir" THEN "IsADirectoryError" ELSE "ok"
        openErr(i) == IF kinds[i] = "file" THEN "lmdb.Error" ELSE "ok"
        hbad == {i \in DOMAIN kinds : hashErr(i) # "ok"}
        obad == {i \in DOMAIN kinds : openErr(i) # "ok"}
    IN  IF hbad # {} THEN [at |-> "hash", error |-> hashErr(Min(hbad))]
        ELSE IF obad # {} THEN [at |-> "open", error |-> openErr(Min(obad))]
        ELSE [at |-> "none", error |-> "ok"]

\* The first exception the input checks of merge_caches_and_save_lmdb raise:
\* the key computation opens every path with open(path, 'rb'), then every
\* path must exist and open as an LMDB environment (a directory).
InputError(kinds) ==
    LET hashErr(i) == IF kinds[i] = "missing" THEN "FileNotFoundError"
                      ELSE IF kinds[i] = "dir" THEN "IsADirectoryError" ELSE "ok"
        openErr(i) == IF kinds[i] = "missing" THEN "FileNotFoundError"
                      ELSE IF kinds[i] = "file" THEN "lmdb.Error" ELSE "ok"
        hbad == {i \in DOMAIN kinds : hashErr(i) # "ok"}
        obad == {i \in DOMAIN kinds : openErr(i) # "ok"}
    IN  IF hbad # {} THEN [at |-> "hash", error |-> hashErr(Min(hbad))]
        ELSE IF obad # {} THEN [at |-> "open", error |-> openErr(Min(obad))]
        ELSE [at |-> "none", error |-> "ok"]

Run(op, kinds, key, outcome) ==
    [op |-> op, kinds |-> kinds, key |-> key,
     existed |-> \E d \in cacheDir : d.key = key /\ d.flavour # "msgpack",
     outcome |-> outcome]

RunInit ==
    /\ srcHash \in [1..NumStores -> 1..MaxVersion]
    /\ cacheDir = {}
    /\ lastRun = [op |-> "none", kinds |-> [i \in 1..NumStores |-> "file"],
                  key |-> srcHash, existed |-> FALSE, outcome |-> "none"]
    /\ Idle("run")

\* The content of one source changes.
ChangeInput ==
    /\ \E i \in 1..NumStores : \E v \in 1..MaxVersion :
          /\ v # srcHash[i]
          /\ srcHash' = [srcHash EXCEPT ![i] = v]
    /\ UNCHANGED <<cacheDir, lastRun, notRun>>

\* main() from "Merged cache logic" to the end of the export step: merged
\* LMDB folders of other keys are deleted; MERGED_<key>.msgpack is used if it
\* exists; otherwise the dictionaries are merged and exported, to
\* MERGED_<key>.msgpack_lmdb with overwrite (format LMDB) or through
\* merge_caches_and_save(enabled_names), whose key computation opens the
\* source names as files (format SQL).
MainRun ==
    /\ \E format \in {"lmdb", "sql"} :
          LET key == compute_merged_cache_key(srcHash)
              kept == {d \in cacheDir : d.key = key \/ d.flavour = "msgpack"}
              kinds == [i \in 1..NumStores |-> "file"]
          IN  IF MergedEntry(key, "msgpack") \in cacheDir
              THEN /\ cacheDir' = kept
                   /\ lastRun' = Run("main", kinds, key, "reused")
              ELSE IF format = "lmdb"
              THEN /\ cacheDir' = kept \cup {MergedEntry(key, "msgpack_lmdb")}
                   /\ lastRun' = Run("main", kinds, key, "rebuilt")
              ELSE /\ cacheDir' = kept
                   /\ lastRun' = Run("main", kinds, key, "FileNotFoundError")
    /\ UNCHANGED <<srcHash, notRun>>

\* merge_caches_and_save_lmdb(lmdb_dirs): the key is computed, every
\* MERGED*_lmdb folder is deleted, the inputs are opened, the merged store is
\* written.
MergeLmdbRun ==
    /\ \E kinds \in [1..NumStores -> PathKinds] :
          LET key == compute_merged_cache_key(srcHash)
              err == InputError(kinds)
              kept == {d \in cacheDir : d.flavour = "msgpack"}
          IN  IF err.at = "hash"
              THEN /\ lastRun' = Run("merge_lmdb", kinds, key, err.error)
                   /\ UNCHANGED cacheDir
              ELSE IF err.at = "open"
              THEN /\ lastRun' = Run("merge_lmdb", kinds, key, err.error)
                   /\ cacheDir' = kept
              ELSE /\ lastRun' = Run("merge_lmdb", kinds, key, "rebuilt")
                   /\ cacheDir' = kept \cup {MergedEntry(key, "lmdb")}
    /\ UNCHANGED <<srcHash, notRun>>

RunNext == ChangeInput \/ MainRun \/ MergeLmdbRun

SpecMergeRun == RunInit /\ [][RunNext]_vars

\* C5: a merge run that starts with a merged store for the current hash of
\* all inputs in the cache reuses it: it neither deletes nor rebuilds it.
C5_ExistingMergedStoreReused ==
    lastRun.existed => lastRun.outcome = "reused"

\* C7: when an input of merge_caches_and_save_lmdb is missing or cannot be
\* opened as a store, the run ends in an exception and leaves no merged
\* store behind; when every input is missing the exception is the
\* FileNotFoundError.
C7_MissingInputAborts ==
    (/\ lastRun.op = "merge_lmdb"
     /\ \E i \in 1..NumStores : lastRun.kinds[i] \in {"missing", "file"}) =>
        /\ lastRun.outcome \in {"FileNotFoundError", "IsADirectoryError", "lmdb.Error"}
        /\ \A d \in cacheDir : d.flavour # "lmdb"
        /\ (\A i \in 1..NumStores : lastRun.kinds[i] = "missing") =>
               lastRun.outcome = "FileNotFoundError"

\* C27: a merge run that ends in an exception destroys no cache artifact
\* that was there when it started: every merged store of the cache folder,
\* the one of the current content hash included, is still there.
C27_FailedRebuildKeepsStores ==
    [][lastRun'.outcome \notin {"none", "reused", "rebuilt"} => cacheDir \subseteq cacheDir']_vars

\* A run over one missing input among inputs that are there, ended by the
\* FileNotFoundError.
C7_Witness ==
    /\ lastRun.op = "merge_lmdb"
    /\ \E i, j \in 1..NumStores :
          lastRun.kinds[i] = "missing" /\ lastRun.kinds[j] = "file"
    /\ lastRun.outcome = "FileNotFoundError"

(***************************************************************************)
(* The merge loop of merge_caches_and_save_lmdb over stored records, one   *)
(* key group per step, from the point where the merged environment and the *)
(* input streams are open                                                  *)
(***************************************************************************)
\* A stored value: msgpack bytes that decode to an entry, or that do not.
Stored(k, ok) ==
    [ok |-> ok,
     entry |-> LinguisticEntry(k, <<WordForm("VERB", <<0>>, "none")>>, <<<<0>>>>, EmptyMeta)]

LoopStorePool ==
    UNION {[D -> {Stored(1, TRUE), Stored(1, FALSE), Stored(2, TRUE), Stored(2, FALSE)}]
           : D \in SUBSET Keys}

LoopInit ==
    /\ loopIn \in {ins \in [1..NumStores -> LoopStorePool] :
                      \A i \in 1..NumStores : \A k \in DOMAIN ins[i] :
                          ins[i][k].entry.word = k}
    /\ mergedEnv = EmptyStore
    /\ loopTxn = EmptyStore
    /\ mergeCount = 0
    /\ lpc = "merging"
    /\ Idle("loop")

\* The keys of all inputs in the order the k-way merge yields their groups.
GroupKeys == SortedKeys(UNION {DOMAIN loopIn[i] : i \in 1..NumStores})

\* msgpack.unpackb raises inside stream_lmdb_entries while the group of key k
\* is assembled: heapq.merge reads the head of every stream before its first
\* item, and the successor of every item it hands out before the next one.
DecodeFails(k) ==
    \/ /\ mergeCount = 0
       /\ \E i \in 1..NumStores :
             DOMAIN loopIn[i] # {} /\ ~loopIn[i][Min(DOMAIN loopIn[i])].ok
    \/ \E i \in 1..NumStores :
          /\ k \in DOMAIN loopIn[i]
          /\ LET later == {j \in DOMAIN loopIn[i] : j > k}
             IN  later # {} /\ ~loopIn[i][Min(later)].ok

\* One pass of the loop body: the entries of the next key are merged and
\* put, the count goes up and a full batch is committed.  An exception of
\* the decoder leaves the loop and the function; the open transaction is
\* never committed.
MergeGroup ==
    /\ lpc = "merging"
    /\ mergeCount < Len(GroupKeys)
    /\ LET k == GroupKeys[mergeCount + 1]
           holders == SelectSeq([i \in 1..NumStores |-> i],
                                LAMBDA i : k \in DOMAIN loopIn[i])
           entries == [j \in DOMAIN holders |-> loopIn[holders[j]][k].entry]
           view == [l \in DOMAIN mergedEnv \cup DOMAIN loopTxn |->
                       IF l \in DOMAIN loopTxn THEN loopTxn[l] ELSE mergedEnv[l]]
           put == Put(loopTxn, k, MergeGroupValue(view, k, entries))
       IN  IF DecodeFails(k)
           THEN /\ lpc' = "aborted"
                /\ loopTxn' = EmptyStore
                /\ UNCHANGED <<mergedEnv, mergeCount>>
           ELSE /\ mergeCount' = mergeCount + 1
                /\ IF mergeCount' % batch_size = 0
                   THEN /\ mergedEnv' = [l \in DOMAIN mergedEnv \cup DOMAIN put |->
                                           IF l \in DOMAIN put THEN put[l]
                                           ELSE mergedEnv[l]]
                        /\ loopTxn' = EmptyStore
                   ELSE /\ loopTxn' = put
                        /\ UNCHANGED mergedEnv
                /\ UNCHANGED lpc
    /\ UNCHANGED <<loopIn, notLoop>>

\* The streams are exhausted: final txn.commit(), env.close(), compaction.
MergeFinish ==
    /\ lpc = "merging"
    /\ mergeCount = Len(GroupKeys)
    /\ mergedEnv' = [l \in DOMAIN mergedEnv \cup DOMAIN loopTxn |->
                        IF l \in DOMAIN loopTxn THEN loopTxn[l] ELSE mergedEnv[l]]
    /\ loopTxn' = EmptyStore
    /\ lpc' = "done"
    /\ UNCHANGED <<loopIn, mergeCount, notLoop>>

LoopNext == MergeGroup \/ MergeFinish

SpecMergeLoop == LoopInit /\ [][LoopNext]_vars

\* C8: a stored record that fails to decode is skipped; the merge still
\* finishes, and every record that decodes is merged and written.
C8_DecodeFailureSkipped ==
    lpc # "merging" =>
        /\ lpc = "done"
        /\ \A i \in 1..NumStores : \A k \in DOMAIN loopIn[i] :
              loopIn[i][k].ok => k \in DOMAIN mergedEnv

(***************************************************************************)
(* The record loops of the three source parsers, one record per step       *)
(***************************************************************************)
\* Most records of one source file.
MaxRecords == 3

\* Largest accent position byte stored in a trie value.
MaxPos == 4

UKRAINIAN_VOWELS == {"a", "e", "o", "u"}

TrieWords == {<<"o", "k">>, <<"k", "o">>}

\* char_positions_to_vowel_indices(word, char_positions): for every stored
\* position > 0 the vowels before the stressed character are counted by
\* indexing word[i] for i in range(position - 1), which raises IndexError
\* past the end of the word; the index is kept if the stressed character is
\* inside the word and is a vowel.  The result is sorted(set(...)).
char_positions_to_vowel_indices(word, char_positions) ==
    LET used == {i \in DOMAIN char_positions : char_positions[i] > 0}
        raises == \E i \in used : char_positions[i] - 1 > Len(word)
        vowel_index(cp) ==
            Cardinality({c \in 1..(cp - 1) : lower(word)[c] \in UKRAINIAN_VOWELS})
        kept == {i \in used : /\ char_positions[i] <= Len(word)
                               /\ lower(word)[char_positions[i]] \in UKRAINIAN_VOWELS}
    IN  [raises |-> raises,
         vowel_indices |-> IF raises THEN <<>>
                           ELSE SortedKeys({vowel_index(char_positions[i]) : i \in kept})]

Record(kind, word, pos) == [kind |-> kind, word |-> word, pos |-> pos]

\* Records between two due progress reports; the parsers use 1000 (KAIKKI,
\* TRIE) and 100 (TXT).
ProgressEvery == 2

\* total_lines of the parser: the KAIKKI parser counts the lines that are not
\* blank, the TXT parser the lines left after blank and comment lines are
\* filtered out, the TRIE parser all keys.
total_lines(p, recs) ==
    IF p = "KAIKKI" THEN Cardinality({i \in DOMAIN recs : recs[i].kind # "blank"})
    ELSE IF p = "TXT" THEN Cardinality({i \in DOMAIN recs : recs[i].kind # "comment"})
    ELSE Len(recs)

\* The loop index of the record at position n: enumerate() over the file
\* (KAIKKI), over the keys (TRIE), over the filtered lines (TXT).
loop_idx(p, recs, n) ==
    IF p = "TXT" THEN Cardinality({i \in 1..(n - 1) : recs[i].kind # "comment"})
    ELSE n - 1

\* if progress_callback and (idx % N == 0 or idx == total_lines - 1):
\*     progress_callback(idx + 1, total_lines)
\* at the end of the loop body; a record passed over with `continue`, or
\* filtered out before the loop, does not reach it.
progress_calls(p, recs, n) ==
    LET i == loop_idx(p, recs, n)
    IN  IF /\ recs[n].kind \notin {"blank", "noword", "comment"}
           /\ (i % ProgressEvery = 0 \/ i = total_lines(p, recs) - 1)
        THEN <<i + 1>> ELSE <<>>

\* The records a source file of each parser may hold.
RecordPool(p) ==
    IF p = "KAIKKI"
    THEN {Record(k, <<>>, 0) : k \in {"ok", "blank", "noword", "badjson"}}
    ELSE IF p = "TXT"
    THEN {Record(k, <<>>, 0) : k \in {"ok", "comment", "malformed"}}
    ELSE {Record("value", w, cp) : w \in TrieWords, cp \in 1..MaxPos}

\* A record that carries a stress form / a record the claim calls malformed.
WellFormed(r) ==
    \/ r.kind = "ok"
    \/ /\ r.kind = "value"
       /\ r.pos \in 1..Len(r.word)
       /\ r.word[r.pos] \in UKRAINIAN_VOWELS

Malformed(r) ==
    \/ r.kind \in {"badjson", "malformed"}
    \/ r.kind = "value" /\ r.pos - 1 > Len(r.word)

ParseInit ==
    /\ parser \in {"KAIKKI", "TRIE", "TXT"}
    /\ records \in UNION {[1..n -> RecordPool(parser)] : n \in 1..MaxRecords}
    /\ idx = 0
    /\ emitted = {}
    /\ ppc = "running"
    /\ callbacks = <<>>
    /\ Idle("parse")

\* parse_kaikki_to_unified_dict, one line: a blank line and an entry without
\* a word are passed over; json.loads(line) is not guarded.
KaikkiLine ==
    /\ parser = "KAIKKI" /\ ppc = "running" /\ idx < Len(records)
    /\ LET r == records[idx + 1]
       IN  IF r.kind = "badjson"
           THEN ppc' = "aborted" /\ UNCHANGED <<idx, emitted, callbacks>>
           ELSE /\ idx' = idx + 1
                /\ callbacks' = callbacks \o progress_calls(parser, records, idx + 1)
                /\ emitted' = IF r.kind = "ok" THEN emitted \cup {idx + 1} ELSE emitted
                /\ UNCHANGED ppc
    /\ UNCHANGED <<parser, records, notParse>>

\* parse_trie_to_unified_dict, one key: the value is decoded to vowel indices
\* and a form is added when there are any; nothing in the loop is guarded.
TrieWord ==
    /\ parser = "TRIE" /\ ppc = "running" /\ idx < Len(records)
    /\ LET r == records[idx + 1]
           decoded == char_positions_to_vowel_indices(r.word, <<r.pos>>)
       IN  IF decoded.raises
           THEN ppc' = "aborted" /\ UNCHANGED <<idx, emitted, callbacks>>
           ELSE /\ idx' = idx + 1
                /\ callbacks' = callbacks \o progress_calls(parser, records, idx + 1)
                /\ emitted' = IF decoded.vowel_indices # <<>>
                               THEN emitted \cup {idx + 1} ELSE emitted
                /\ UNCHANGED ppc
    /\ UNCHANGED <<parser, records, notParse>>

\* parse_txt_to_unified_dict, one line: the body is wrapped in try/except,
\* an exception is logged and the loop continues.
TxtLine ==
    /\ parser = "TXT" /\ ppc = "running" /\ idx < Len(records)
    /\ idx' = idx + 1
    /\ emitted' = IF records[idx + 1].kind = "ok" THEN emitted \cup {idx + 1} ELSE emitted
    /\ callbacks' = callbacks \o progress_calls(parser, records, idx + 1)
    /\ UNCHANGED <<parser, records, ppc, notParse>>

\* The loop ends and the parser returns its dictionary.
ParseReturn ==
    /\ ppc = "running" /\ idx = Len(records)
    /\ ppc' = "done"
    /\ UNCHANGED <<parser, records, idx, emitted, callbacks, notParse>>

ParseNext == KaikkiLine \/ TrieWord \/ TxtLine \/ ParseReturn

SpecParse == ParseInit /\ [][ParseNext]_vars

\* C9: in every parser a malformed record never aborts the parse: the parse
\* runs to its end and every well-formed record, before or after the
\* malformed one, is emitted.
C9_MalformedRecordSkipped ==
    (ppc # "running" /\ \E i \in DOMAIN records : Malformed(records[i])) =>
        /\ ppc = "done"
        /\ \A i \in DOMAIN records : WellFormed(records[i]) => i \in emitted

\* C21: a parser invokes the progress callback at most once per batch of
\* ProgressEvery consecutive records, the final (possibly short) batch
\* included: no two invocations fall into the same batch.
C21_CallbackOncePerBatch ==
    \A i, j \in DOMAIN callbacks :
        i # j => (callbacks[i] - 1) \div ProgressEvery
                     # (callbacks[j] - 1) \div ProgressEvery

(***************************************************************************)
(* The binary value decoder on its own: one trie key, the accent positions  *)
(* of one value, one call of _char_positions_to_vowel_indices.             *)
(***************************************************************************)
\* Largest accent position a value stores here.
MaxStored == 8

\* Most accent positions in one value.
MaxAccents == 2

\* Trie keys: "mama", "voda", "Oda" and the 14-letter "poperevaluvano".
DecodeWords ==
    {<<"m", "a", "m", "a">>, <<"v", "o", "d", "a">>, <<"O", "d", "a">>,
     <<"p", "o", "p", "e", "r", "e", "v", "a", "l", "u", "v", "a", "n", "o">>}

\* Accent positions handed to the decoder; the decoder itself skips a
\* position of 0.
StoredPool == UNION {[1..n -> 0..MaxStored] : n \in 1..MaxAccents}

DecodeInit ==
    /\ dword \in DecodeWords
    /\ stored \in StoredPool
    /\ dout = [done |-> FALSE, raises |-> FALSE, vowel_indices |-> <<>>]
    /\ Idle("decode")

\* One call of the decoder on the stored positions of the key.
Decode ==
    /\ ~dout.done
    /\ dout' = [done |-> TRUE] @@ char_positions_to_vowel_indices(dword, stored)
    /\ UNCHANGED <<dword, stored, notDecode>>

DecodeNext == Decode

SpecDecode == DecodeInit /\ [][DecodeNext]_vars

\* C16: every stored position P >= 1 names the character at index P-1 and,
\* only if that character is a vowel, yields the number of vowels strictly
\* before it; P = 0 is ignored; a 4-letter word with P = 2 gives 0, a
\* 4-letter word with P = 4 gives 1, the 14-letter word with P = 8 gives 3.
C16_DecoderYieldsVowelIndex ==
    dout.done =>
        LET isVowel(i) == i \in DOMAIN dword /\ lower(dword)[i] \in UKRAINIAN_VOWELS
            before(P) == Cardinality({i \in 1..(P - 1) : isVowel(i)})
            yields == {before(stored[j]) : j \in {j \in DOMAIN stored :
                                        stored[j] >= 1 /\ isVowel(stored[j])}}
        IN  /\ ~dout.raises
            /\ Range(dout.vowel_indices) = yields
            /\ (Len(dword) = 4 /\ stored = <<2>>) => dout.vowel_indices = <<0>>
            /\ (Len(dword) = 4 /\ stored = <<4>>) => dout.vowel_indices = <<1>>
            /\ (Len(dword) = 14 /\ stored = <<8>>) => dout.vowel_indices = <<3>>

(***************************************************************************)
(* Variant classifier (export/export_training_db.py)                       *)
(***************************************************************************)
\* Longest form list handed to the classifier.
MaxClsForms == 2

\* Most calls of the classifier on one form list.
MaxCalls == 2

\* Forms of one headword: three (POS, feats) fingerprints, three stress
\* lists of which two hold the same indices in another order, and a
\* definition that is absent ("none"), empty or one of two texts.
ClsFormPool ==
    {[WordForm(pf[1], st, d) EXCEPT !.feats = pf[2]] :
        pf \in {<<"NOUN", EmptyMeta>>, <<"NOUN", "Case" :> "Nom">>, <<"VERB", EmptyMeta>>},
        st \in {<<0>>, <<0, 1>>, <<1, 0>>},
        d \in {"none", "", "castle", "lock"}}

\* Variant of determine_variant_type that keys the groups by the stress list
\* as stored, without sorting it.
determine_variant_type_unsorted(forms) ==
    LET stress_key(form) == form.stress_indices
        pos_feats_json(form) == <<form.pos, form.feats>>
        definition(form) == IF form.main_definition = "none" THEN ""
                            ELSE form.main_definition
        stress_defs == {stress_key(forms[i]) : i \in DOMAIN forms}
        all_pos_feats == {pos_feats_json(forms[i]) : i \in DOMAIN forms}
        all_definitions == {definition(forms[i]) : i \in DOMAIN forms}
    IN  IF forms = <<>> THEN "single"
        ELSE IF Cardinality(stress_defs) <= 1 THEN "single"
        ELSE IF Cardinality(all_pos_feats) = 1 /\ Cardinality(all_definitions) <= 1
        THEN "free_variant"
        ELSE IF Cardinality(all_pos_feats) = 1 /\ Cardinality(all_definitions) > 1
        THEN "grammatical_homonym"
        ELSE "morphological_variant"

\* determine_variant_type(lemma, forms): stress_key is the sorted tuple of
\* the stress indices, pos_feats_json the key-sorted dump of POS and feats,
\* definition is `main_definition or ""`.
determine_variant_type(forms) ==
    LET stress_key(form) == sorted(form.stress_indices)
        pos_feats_json(form) == <<form.pos, form.feats>>
        definition(form) == IF form.main_definition = "none" THEN ""
                            ELSE form.main_definition
        stress_defs == {stress_key(forms[i]) : i \in DOMAIN forms}
        all_pos_feats == {pos_feats_json(forms[i]) : i \in DOMAIN forms}
        all_definitions == {definition(forms[i]) : i \in DOMAIN forms}
    IN  IF forms = <<>> THEN "single"
        ELSE IF Cardinality(stress_defs) <= 1 THEN "single"
        ELSE IF Cardinality(all_pos_feats) = 1 /\ Cardinality(all_definitions) <= 1
        THEN "free_variant"
        ELSE IF Cardinality(all_pos_feats) = 1 /\ Cardinality(all_definitions) > 1
        THEN "grammatical_homonym"
        ELSE "morphological_variant"

ClassifyInit ==
    /\ cforms \in UNION {[1..n -> ClsFormPool] : n \in 1..MaxClsForms}
    /\ labels = <<>>
    /\ Idle("classify")

\* One call of determine_variant_type on the form list.
Classify ==
    /\ Len(labels) < MaxCalls
    /\ labels' = Append(labels, determine_variant_type(cforms))
    /\ UNCHANGED <<cforms, notClassify>>

ClassifyNext == Classify

SpecClassify == ClassifyInit /\ [][ClassifyNext]_vars

\* C17: for a non-empty form list every call of the classifier returns the
\* same single label: single when all forms share one sorted stress tuple;
\* otherwise free_variant for one (POS, feats) fingerprint and at most one
\* distinct definition, grammatical_homonym for one fingerprint and more
\* than one distinct definition, morphological_variant for more than one
\* fingerprint.  An absent definition counts as the empty definition.
C17_ClassifierLabel ==
    \A c \in DOMAIN labels :
        LET sameGroup(f, g) == sorted(f.stress_indices) = sorted(g.stress_indices)
            oneGroup == \A i, j \in DOMAIN cforms : sameGroup(cforms[i], cforms[j])
            oneFingerprint ==
                \A i, j \in DOMAIN cforms :
                    cforms[i].pos = cforms[j].pos /\ cforms[i].feats = cforms[j].feats
            text(f) == IF f.main_definition = "none" THEN "" ELSE f.main_definition
            definitions == {text(cforms[i]) : i \in DOMAIN cforms}
        IN  /\ labels[c] \in {"single", "free_variant", "grammatical_homonym",
                              "morphological_variant"}
            /\ labels[c] = labels[1]
            /\ labels[c] = "single" <=> oneGroup
            /\ labels[c] = "free_variant" <=>
                   (~oneGroup /\ oneFingerprint /\ Cardinality(definitions) <= 1)
            /\ labels[c] = "grammatical_homonym" <=>
                   (~oneGroup /\ oneFingerprint /\ Cardinality(definitions) > 1)
            /\ labels[c] = "morphological_variant" <=> (~oneGroup /\ ~oneFingerprint)

\* Two NOUN forms with different stress and different definitions were
\* classified twice as grammatical_homonym.
C17_Witness ==
    /\ cforms = <<WordForm("NOUN", <<0>>, "castle"), WordForm("NOUN", <<1, 0>>, "lock")>>
    /\ labels = <<"grammatical_homonym", "grammatical_homonym">>

(***************************************************************************)
(* A parser worker process, its two queues and the coordinator that reads  *)
(* them (transform/parsing_merging_service.py, stress_db_generator/        *)
(* generate_db.py).  None is <<>>, a value v is <<v>>.                     *)
(***************************************************************************)
\* Most rows (headwords) a source holds.
MaxData == 3

\* The worker functions: parser_worker of the parsing and merging service,
\* parse_trie_worker and parse_txt_worker of the database generator.
WorkerKinds == {"parser_worker", "parse_trie_worker", "parse_txt_worker"}

\* The name a worker signs its messages with.
WorkerName(kind) ==
    IF kind = "parse_trie_worker" THEN "trie"
    ELSE IF kind = "parse_txt_worker" THEN "txt" ELSE "TRIE"

\* The parsed dataset of `rows` headwords.
Dataset(rows) == 1..rows

\* What the worker puts on the result queue when its parser returned:
\* parser_worker sends (name, None, stats, None); the workers of the
\* database generator send (name, data).
ResultMessage(kind, rows) ==
    IF kind = "parser_worker"
    THEN [name |-> WorkerName(kind), data |-> <<>>,
          stats |-> <<[unique_lemmas |-> rows]>>, err |-> <<>>]
    ELSE [name |-> WorkerName(kind), data |-> <<Dataset(rows)>>,
          stats |-> <<>>, err |-> <<>>]

\* What the worker puts on the result queue from its except branch.
ErrorMessage(kind) ==
    [name |-> WorkerName(kind), data |-> <<>>, stats |-> <<>>, err |-> <<"error">>]

WorkerInit ==
    /\ wkind \in WorkerKinds
    /\ wparse \in {[raises |-> r, rows |-> n] : r \in BOOLEAN, n \in 0..MaxData}
    /\ parsed = 0
    /\ progressQ = <<>>
    /\ resultQ = <<>>
    /\ received = <<>>
    /\ finished = FALSE
    /\ wpc = "parsing"
    /\ Idle("worker")

\* The parser goes through one more row and may call progress_callback:
\* parser_worker's callback puts every call on the progress queue, the
\* generator's callbacks only when current % 5000 == 0 or current == total.
WorkerProgress ==
    /\ wpc = "parsing" /\ parsed < wparse.rows
    /\ parsed' = parsed + 1
    /\ \E called \in BOOLEAN :
          LET current == parsed + 1
              put == /\ called
                     /\ \/ wkind = "parser_worker"
                        \/ current % 5000 = 0
                        \/ current = wparse.rows
          IN  progressQ' = IF put
                           THEN Append(progressQ, [name |-> WorkerName(wkind),
                                                   current |-> <<current>>,
                                                   total |-> <<wparse.rows>>])
                           ELSE progressQ
    /\ UNCHANGED <<wkind, wparse, resultQ, received, finished, wpc, notWorker>>

\* The parser returned: the worker puts its result and the finish signal.
WorkerReturn ==
    /\ wpc = "parsing" /\ ~wparse.raises /\ parsed = wparse.rows
    /\ resultQ' = Append(resultQ, ResultMessage(wkind, wparse.rows))
    /\ progressQ' = Append(progressQ, [name |-> WorkerName(wkind),
                                       current |-> <<>>, total |-> <<>>])
    /\ wpc' = "done"
    /\ UNCHANGED <<wkind, wparse, parsed, received, finished, notWorker>>

\* The parser raised: the except branch puts the error text and the finish
\* signal.
WorkerRaise ==
    /\ wpc = "parsing" /\ wparse.raises
    /\ resultQ' = Append(resultQ, ErrorMessage(wkind))
    /\ progressQ' = Append(progressQ, [name |-> WorkerName(wkind),
                                       current |-> <<>>, total |-> <<>>])
    /\ wpc' = "done"
    /\ UNCHANGED <<wkind, wparse, parsed, received, finished, notWorker>>

\* The coordinator takes one message off the progress queue; a message whose
\* `current` is None counts the worker as finished.
CoordProgress ==
    /\ ~finished /\ progressQ # <<>>
    /\ progressQ' = Tail(progressQ)
    /\ finished' = (Head(progressQ).current = <<>>)
    /\ UNCHANGED <<wkind, wparse, parsed, resultQ, received, wpc, notWorker>>

\* After the finish signal the coordinator takes the worker's result.
CoordResult ==
    /\ finished /\ resultQ # <<>>
    /\ received' = Append(received, Head(resultQ))
    /\ resultQ' = Tail(resultQ)
    /\ UNCHANGED <<wkind, wparse, parsed, progressQ, finished, wpc, notWorker>>

WorkerNext ==
    WorkerProgress \/ WorkerReturn \/ WorkerRaise \/ CoordProgress \/ CoordResult

SpecWorker == WorkerInit /\ [][WorkerNext]_vars

\* C20: every message on the result channel from a worker to the
\* coordinator carries the worker's name, statistics or an error text, and
\* never the parsed dataset.
C20_ResultChannelMetadataOnly ==
    \A q \in {resultQ, received} : \A i \in DOMAIN q : q[i].data = <<>>

(***************************************************************************)
(* run_parsers_concurrently_mp: the coordinator starts one parser_worker   *)
(* process per parser, at most max_concurrent at a time, reads the         *)
(* progress queue until every process has signalled, then collects the     *)
(* results.  A queue put or get is one step.                               *)
(***************************************************************************)
\* Most parsers handed to one run (the multiprocessing path needs two).
MaxParsers == 3

\* Most progress callbacks one parser makes.
MaxReports == 1

max_concurrent == 2

\* A worker process: `calls` progress callbacks, then its parser returns or
\* raises.  The counters record what the process was made to do.
Proc(raises, calls) ==
    [st |-> "unstarted", raises |-> raises, calls |-> calls, made |-> 0,
     launches |-> 0, result_puts |-> 0, finish_puts |-> 0]

PoolInit ==
    /\ \E n \in 2..MaxParsers :
           procs \in [1..n -> {Proc(r, c) : r \in BOOLEAN, c \in 0..MaxReports}]
    /\ pq = <<>>
    /\ rq = <<>>
    /\ running = <<>>
    /\ cidx = 0
    /\ finished_count = 0
    /\ results = <<>>
    /\ cpc = "schedule"
    /\ Idle("pool")

expected_finishes == Len(procs)

\* progress_callback of parser_worker: progress_queue.put((name, current, total))
WorkerCallback(w) ==
    /\ procs[w].st = "parsing"
    /\ procs[w].made < procs[w].calls
    /\ pq' = Append(pq, [name |-> w, current |-> <<procs[w].made + 1>>])
    /\ procs' = [procs EXCEPT ![w].made = @ + 1]
    /\ UNCHANGED <<rq, running, cidx, finished_count, results, cpc, notPool>>

\* func returned or raised: result_queue.put((name, None, stats, None)) in
\* the try branch, result_queue.put((name, None, None, error)) in the except
\* branch.
WorkerResult(w) ==
    /\ procs[w].st = "parsing"
    /\ procs[w].made = procs[w].calls
    /\ rq' = Append(rq, [name |-> w, err |-> procs[w].raises])
    /\ procs' = [procs EXCEPT ![w].st = "reported", ![w].result_puts = @ + 1]
    /\ UNCHANGED <<pq, running, cidx, finished_count, results, cpc, notPool>>

\* The finish signal put only in the try branch.
WorkerFinish_try_only(w) ==
    /\ procs[w].st = "reported"
    /\ IF procs[w].raises
       THEN /\ procs' = [procs EXCEPT ![w].st = "exited"]
            /\ UNCHANGED pq
       ELSE /\ pq' = Append(pq, [name |-> w, current |-> <<>>])
            /\ procs' = [procs EXCEPT ![w].st = "exited", ![w].finish_puts = @ + 1]
    /\ UNCHANGED <<rq, running, cidx, finished_count, results, cpc, notPool>>

\* progress_queue.put((name, None, None)) after the result, in both
\* branches; the process ends after it.
WorkerFinish(w) ==
    /\ procs[w].st = "reported"
    /\ pq' = Append(pq, [name |-> w, current |-> <<>>])
    /\ procs' = [procs EXCEPT ![w].st = "exited", ![w].finish_puts = @ + 1]
    /\ UNCHANGED <<rq, running, cidx, finished_count, results, cpc, notPool>>

\* The start of a process without the limit on `running`.
Launch_unlimited ==
    /\ cpc = "schedule"
    /\ cidx < Len(procs)
    /\ procs' = [procs EXCEPT ![cidx + 1].st = "parsing", ![cidx + 1].launches = @ + 1]
    /\ running' = Append(running, cidx + 1)
    /\ cidx' = cidx + 1
    /\ UNCHANGED <<pq, rq, finished_count, results, cpc, notPool>>

\* while len(running) < max_concurrent and idx < total: start the process of
\* parser idx, append it to running, idx += 1.
Launch ==
    /\ cpc = "schedule"
    /\ Len(running) < max_concurrent /\ cidx < Len(procs)
    /\ procs' = [procs EXCEPT ![cidx + 1].st = "parsing", ![cidx + 1].launches = @ + 1]
    /\ running' = Append(running, cidx + 1)
    /\ cidx' = cidx + 1
    /\ UNCHANGED <<pq, rq, finished_count, results, cpc, notPool>>

\* running without its first entry named n.
RemoveFirst(list, n) ==
    IF \E i \in DOMAIN list : list[i] = n
    THEN LET i == Min({j \in DOMAIN list : list[j] = n})
         IN  SubSeq(list, 1, i - 1) \o SubSeq(list, i + 1, Len(list))
    ELSE list

\* name, current, total_ = progress_queue.get() inside the scheduling loop,
\* once no further process can be started: a finish signal counts and takes
\* the process out of running (its join returns, the signal being the last
\* thing the process does); a progress report moves the bar.
ProgressGet ==
    /\ cpc = "schedule"
    /\ ~(Len(running) < max_concurrent /\ cidx < Len(procs))
    /\ cidx < Len(procs) \/ running # <<>>
    /\ pq # <<>>
    /\ pq' = Tail(pq)
    /\ IF Head(pq).current = <<>>
       THEN /\ finished_count' = finished_count + 1
            /\ running' = RemoveFirst(running, Head(pq).name)
       ELSE UNCHANGED <<finished_count, running>>
    /\ UNCHANGED <<procs, rq, cidx, results, cpc, notPool>>

\* `while idx < total or running` ends.
LoopExit ==
    /\ cpc = "schedule"
    /\ cidx = Len(procs) /\ running = <<>>
    /\ cpc' = "collect"
    /\ UNCHANGED <<procs, pq, rq, running, cidx, finished_count, results, notPool>>

\* for _ in range(expected_finishes): name, data, stats, err = result_queue.get()
ResultGet ==
    /\ cpc = "collect"
    /\ Len(results) < expected_finishes
    /\ rq # <<>>
    /\ results' = Append(results, Head(rq))
    /\ rq' = Tail(rq)
    /\ UNCHANGED <<procs, pq, running, cidx, finished_count, cpc, notPool>>

\* After the collection: RuntimeError if any parser failed, else the results
\* are loaded from the cache and returned.
CollectEnd ==
    /\ cpc = "collect"
    /\ Len(results) = expected_finishes
    /\ cpc' = IF \E i \in DOMAIN results : results[i].err THEN "raised" ELSE "returned"
    /\ UNCHANGED <<procs, pq, rq, running, cidx, finished_count, results, notPool>>

PoolNext ==
    \/ \E w \in DOMAIN procs : WorkerCallback(w) \/ WorkerResult(w) \/ WorkerFinish(w)
    \/ Launch \/ ProgressGet \/ LoopExit \/ ResultGet \/ CollectEnd

SpecPool == PoolInit /\ [][PoolNext]_vars

\* Every started process runs and the coordinator is not starved: a step
\* that stays possible is taken.
SpecPoolFair == SpecPool /\ WF_vars(PoolNext)

\* C25: every worker puts exactly one result message and one finish signal,
\* whether its parser returns or raises, and the coordinator leaves the
\* scheduling loop after N finish signals and collects N result messages:
\* it always comes to its end, with both queues read empty.
C25_CoordinatorTerminates ==
    /\ [](\A w \in DOMAIN procs : /\ procs[w].result_puts <= 1
                                  /\ procs[w].finish_puts <= procs[w].result_puts)
    /\ <>(/\ cpc \in {"returned", "raised"}
          /\ finished_count = Len(procs)
          /\ Len(results) = Len(procs)
          /\ {results[i].name : i \in DOMAIN results} = DOMAIN procs
          /\ \A w \in DOMAIN procs : /\ procs[w].result_puts = 1
                                     /\ procs[w].finish_puts = 1
          /\ pq = <<>> /\ rq = <<>>)

\* A run of three parsers, one of which raised and one of which reported
\* progress, came to its end.
C25_Witness ==
    /\ cpc = "raised"
    /\ Len(procs) = 3
    /\ \E w \in DOMAIN procs : procs[w].raises /\ procs[w].finish_puts = 1
    /\ \E w \in DOMAIN procs : ~procs[w].raises /\ procs[w].made = 1
    /\ Len(results) = 3

\* The finish signal of process w has been read by the coordinator.
ReportedFinished(w) ==
    /\ procs[w].finish_puts >= 1
    /\ ~\E i \in DOMAIN pq : pq[i].name = w /\ pq[i].current = <<>>

\* C26: at every moment at most max_concurrent processes are started and not
\* yet reported finished, no parser is started twice, and when the
\* scheduling loop is over every parser has been started once.
C26_AtMostTwoRunning ==
    /\ Cardinality({w \in DOMAIN procs :
                       procs[w].launches >= 1 /\ ~ReportedFinished(w)}) <= max_concurrent
    /\ \A w \in DOMAIN procs : procs[w].launches <= 1
    /\ cpc # "schedule" => \A w \in DOMAIN procs : procs[w].launches = 1

\* The third parser was started after the first finish signal was read, and
\* two processes are running.
C26_Witness ==
    /\ Len(procs) = 3
    /\ cidx = 3
    /\ finished_count = 1
    /\ Len(running) = 2
    /\ \A w \in DOMAIN procs : procs[w].launches = 1

(***************************************************************************)
(* stream_kaikki_to_lmdb: entry_iter collects the forms of every headword  *)
(* in word_entries and yields and clears them every batch_size lines;      *)
(* export_streaming puts every yielded pair into the store.                *)
(***************************************************************************)
\* Most lines of the source file.
MaxLines == 4

\* Lines between two flushes (batch_size of stream_kaikki_to_lmdb, 10000).
kaikki_batch_size == 2

\* Headwords of the source.
LineWords == {1, 2}

FlushInit ==
    /\ klines \in UNION {[1..n -> LineWords] : n \in 1..MaxLines}
    /\ kidx = 0
    /\ pending = EmptyStore
    /\ kstore = EmptyStore
    /\ kpc = "reading"
    /\ Idle("flush")

\* txn.put(key, value) for every yielded pair: a key already in the store
\* gets the new value.
PutAll(store, entries) ==
    [k \in DOMAIN store \cup DOMAIN entries |->
        IF k \in DOMAIN entries THEN entries[k] ELSE store[k]]

\* One line of the file: its form (named by the line number) is appended to
\* the list of its headword; if (idx + 1) % batch_size == 0 every headword of
\* word_entries is yielded, hence put, and word_entries is cleared.
StreamLine ==
    /\ kpc = "reading" /\ kidx < Len(klines)
    /\ LET word == klines[kidx + 1]
           old == IF word \in DOMAIN pending THEN pending[word] ELSE <<>>
           appended == Put(pending, word, Append(old, kidx + 1))
       IN  IF (kidx + 1) % kaikki_batch_size = 0
           THEN /\ kstore' = PutAll(kstore, appended)
                /\ pending' = EmptyStore
           ELSE /\ pending' = appended
                /\ UNCHANGED kstore
    /\ kidx' = kidx + 1
    /\ UNCHANGED <<klines, kpc, notFlush>>

\* The final flush after the last line.
FinalFlush ==
    /\ kpc = "reading" /\ kidx = Len(klines)
    /\ kstore' = PutAll(kstore, pending)
    /\ kpc' = "done"
    /\ UNCHANGED <<klines, kidx, pending, notFlush>>

FlushNext == StreamLine \/ FinalFlush

SpecFlush == FlushInit /\ [][FlushNext]_vars

\* C28: the store built by streaming the KAIKKI source holds, for every
\* headword, all the forms parsed for it from the whole source, also when
\* its lines fall into different flush batches.
C28_StoreHoldsAllForms ==
    kpc = "done" =>
        \A word \in Range(klines) :
            /\ word \in DOMAIN kstore
            /\ Range(kstore[word]) = {i \in DOMAIN klines : klines[i] = word}

(***************************************************************************)
(* StressResolver (nlp/pipeline/stress_resolver.py).  Scores are held in   *)
(* hundredths: 0.4 is 40, 1.0 is 100.                                      *)
(***************************************************************************)
\* Most candidates the lookup returns for one word.
MaxCands == 3

POS_WEIGHT == 40

FEATURES_WEIGHT == 40

VOWELS == {"a", "o"}

\* The combining acute accent U+0301.
ACUTE == "'"

\* Surface texts of tokens (token.text); the first one is capitalised.  The
\* tokenizer builds text_normalized as the lowercased text (the words here
\* hold no apostrophe, so normalize_apostrophe leaves them alone).
Words == {<<"Z", "a", "m", "o", "k">>, <<"k", "o", "t">>}

\* One entry of the lookup result.
Form(stress_variants, pos, feats) ==
    [stress_variants |-> stress_variants, pos |-> pos, feats |-> feats]

\* Forms as the database generator stores them: forms that come from the
\* trie carry a stress, a POS and features; forms that come from the text
\* source carry no POS and no features, and no stress either when the line
\* had no stress mark.
CandidatePool ==
    {Form(sv, ps, fs) : sv \in {<<0>>, <<1>>}, ps \in {{"NOUN"}, {"VERB"}},
                        fs \in {EmptyMeta, "Case" :> {"Nom"}}}
    \cup {Form(<<>>, {}, EmptyMeta), Form(<<1>>, {}, EmptyMeta)}

\* A headword is purged from the database when every form of it has no
\* stress, no POS and no features.
Purged(forms) ==
    forms # <<>> /\ \A i \in DOMAIN forms : forms[i] = Form(<<>>, {}, EmptyMeta)

\* Lookup results: None or an empty list is <<>>.
LookupPool ==
    {forms \in UNION {[1..n -> CandidatePool] : n \in 0..MaxCands} : ~Purged(forms)}

\* Tokens as the tokenizer builds them: pos is a string (empty when the
\* tagger gave none), morph a dict (empty when there are no features).
TokenPool ==
    {[text |-> w, text_normalized |-> lower(w), pos |-> p, morph |-> m] :
        w \in Words, p \in {"NOUN", "VERB", ""},
        m \in {EmptyMeta, "Case" :> "Nom", "Case" :> "Gen",
               ("Case" :> "Nom") @@ ("Number" :> "Sing")}}

\* str.upper() on the token's POS tag.
upper(pos) ==
    CASE pos = "noun" -> "NOUN" [] pos = "verb" -> "VERB" [] OTHER -> pos

\* Variant of _calculate_morph_match that counts a token feature as matching
\* whenever the form has that feature, whatever its values.
calculate_morph_match_any_value(tok, stress_form) ==
    LET pos_score == IF upper(tok.pos) \in stress_form.pos THEN POS_WEIGHT ELSE 0
        token_morph == tok.morph
        stress_feats == stress_form.feats
        total_features == Cardinality(DOMAIN token_morph)
        matching_features ==
            Cardinality({feat \in DOMAIN token_morph : feat \in DOMAIN stress_feats})
    IN  IF DOMAIN token_morph # {} /\ DOMAIN stress_feats # {}
        THEN pos_score + (FEATURES_WEIGHT * matching_features) \div total_features
        ELSE pos_score

\* _calculate_morph_match(token, stress_form)
calculate_morph_match(tok, stress_form) ==
    LET pos_score == IF upper(tok.pos) \in stress_form.pos THEN POS_WEIGHT ELSE 0
        token_morph == tok.morph
        stress_feats == stress_form.feats
        total_features == Cardinality(DOMAIN token_morph)
        matching_features ==
            Cardinality({feat \in DOMAIN token_morph :
                            /\ feat \in DOMAIN stress_feats
                            /\ token_morph[feat] \in stress_feats[feat]})
    IN  IF DOMAIN token_morph # {} /\ DOMAIN stress_feats # {}
        THEN pos_score + (FEATURES_WEIGHT * matching_features) \div total_features
        ELSE pos_score

\* Variant of _find_best_match that also replaces the best form on an equal
\* score.
find_best_match_on_equal(tok, stress_forms) ==
    LET RECURSIVE loop(_, _, _)
        loop(i, best, best_score) ==
            IF i > Len(stress_forms)
            THEN [best_form |-> best, best_score |-> best_score]
            ELSE LET score == calculate_morph_match(tok, stress_forms[i])
                 IN  IF score >= best_score
                     THEN loop(i + 1, i, score)
                     ELSE loop(i + 1, best, best_score)
    IN  loop(1, 1, 0)

\* _find_best_match(token, stress_forms): best_form starts as the first
\* form, best_score as 0.0, and a form replaces the best one only on a
\* strictly greater score.  best_form is kept as its index.
find_best_match(tok, stress_forms) ==
    LET RECURSIVE loop(_, _, _)
        loop(i, best, best_score) ==
            IF i > Len(stress_forms)
            THEN [best_form |-> best, best_score |-> best_score]
            ELSE LET score == calculate_morph_match(tok, stress_forms[i])
                 IN  IF score > best_score
                     THEN loop(i + 1, i, score)
                     ELSE loop(i + 1, best, best_score)
    IN  loop(1, 1, 0)

\* Python's xs[i] on a list: the element as <<x>>, or IndexError when i is
\* outside -len(xs) .. len(xs)-1.
getitem(xs, i) ==
    IF i >= 0 /\ i < Len(xs) THEN [raises |-> FALSE, value |-> <<xs[i + 1]>>]
    ELSE IF i < 0 /\ -i <= Len(xs)
    THEN [raises |-> FALSE, value |-> <<xs[Len(xs) + i + 1]>>]
    ELSE [raises |-> TRUE, value |-> <<>>]

\* _add_stress_mark(word, stress_position); vowel_positions holds the
\* 1-based places of the vowels, so the mark goes right after that place.
add_stress_mark(word, stress_position) ==
    LET vowel_positions == SortedKeys({i \in DOMAIN word : word[i] \in VOWELS})
    IN  IF stress_position >= Len(vowel_positions)
        THEN [raises |-> FALSE, value |-> word]
        ELSE LET at == getitem(vowel_positions, stress_position)
             IN  IF at.raises THEN [raises |-> TRUE, value |-> <<>>]
                 ELSE [raises |-> FALSE,
                       value |-> SubSeq(word, 1, at.value[1]) \o <<ACUTE>>
                                 \o SubSeq(word, at.value[1] + 1, Len(word))]

\* Variant of _build_result that reads stress_variants[0] without looking
\* whether the list is empty.
build_result_unguarded(tok, stress_forms, selected, score, confidence) ==
    LET stress_variants == stress_forms[selected].stress_variants
        first == getitem(stress_variants, 0)
        stress_position == first.value
        marked == IF stress_position # <<>>
                  THEN add_stress_mark(tok.text_normalized, stress_position[1])
                  ELSE [raises |-> FALSE, value |-> <<>>]
    IN  [resolved |-> TRUE,
         raises |-> first.raises \/ marked.raises,
         stress_position |-> stress_position,
         stress_pattern |-> marked.value,
         stress_confidence |-> confidence,
         stress_match_score |-> score,
         selected |-> selected]

\* _build_result(token, form, score, confidence); None is <<>>, a position p
\* is <<p>>; `selected` is the index of the form the result was built from
\* and `raises` tells that an exception left the call instead of a result.
build_result(tok, stress_forms, selected, score, confidence) ==
    LET stress_variants == stress_forms[selected].stress_variants
        first == IF stress_variants # <<>> THEN getitem(stress_variants, 0)
                 ELSE [raises |-> FALSE, value |-> <<>>]
        stress_position == first.value
        marked == IF stress_position # <<>>
                  THEN add_stress_mark(tok.text_normalized, stress_position[1])
                  ELSE [raises |-> FALSE, value |-> <<>>]
    IN  [resolved |-> TRUE,
         raises |-> first.raises \/ marked.raises,
         stress_position |-> stress_position,
         stress_pattern |-> marked.value,
         stress_confidence |-> confidence,
         stress_match_score |-> score,
         selected |-> selected]

\* _no_stress_result()
no_stress_result ==
    [resolved |-> TRUE, raises |-> FALSE, stress_position |-> <<>>,
     stress_pattern |-> <<>>, stress_confidence |-> "none",
     stress_match_score |-> 0, selected |-> 0]

\* Variant of resolve that scores a single candidate like any other.
resolve_single_scored(tok, stress_result) ==
    IF stress_result = <<>> THEN no_stress_result
    ELSE LET best == find_best_match(tok, stress_result)
             confidence == IF best.best_score >= 80 THEN "exact"
                           ELSE IF best.best_score >= 50 THEN "partial"
                           ELSE "fallback"
         IN  build_result(tok, stress_result, best.best_form, best.best_score, confidence)

\* resolve(token); stress_result is what the lookup returned.
resolve(tok, stress_result) ==
    IF stress_result = <<>> THEN no_stress_result
    ELSE IF Len(stress_result) = 1
    THEN build_result(tok, stress_result, 1, 100, "exact")
    ELSE LET best == find_best_match(tok, stress_result)
             confidence == IF best.best_score >= 80 THEN "exact"
                           ELSE IF best.best_score >= 50 THEN "partial"
                           ELSE "fallback"
         IN  build_result(tok, stress_result, best.best_form, best.best_score, confidence)

ResolveInit ==
    /\ token \in TokenPool
    /\ candidates \in LookupPool
    /\ result = [resolved |-> FALSE, raises |-> FALSE, stress_position |-> <<>>,
                 stress_pattern |-> <<>>, stress_confidence |-> "none",
                 stress_match_score |-> 0, selected |-> 0]
    /\ Idle("resolve")

Resolve ==
    /\ ~result.resolved
    /\ result' = resolve(token, candidates)
    /\ UNCHANGED <<token, candidates, notResolve>>

ResolveNext == Resolve

SpecResolve == ResolveInit /\ [][ResolveNext]_vars

(***************************************************************************)
(* Stress extraction: what each parser emits for the raw forms of one      *)
(* headword (txt_stress_parser.py, kaikki_parser.py, trie_stress_parser.py)*)
(***************************************************************************)
\* Most letters of a raw text form (a stress mark is not a letter).
MaxLetters == 3

\* A letter of a raw form, with the stress mark that may follow a vowel.
Units == {<<"a">>, <<"a", ACUTE>>, <<"k">>}

RECURSIVE Flatten(_)
Flatten(us) == IF us = <<>> THEN <<>> ELSE Head(us) \o Flatten(Tail(us))

\* Raw text forms (tokens of the TXT file, form strings of KAIKKI).
RawForms == {Flatten(us) : us \in UNION {[1..n -> Units] : n \in 1..MaxLetters}}

\* strip_stress_marks / strip_stress: the form without its stress marks.
strip_stress_marks(word) == SelectSeq(word, LAMBDA c : c # ACUTE)

\* get_vowel_positions(word), 0-based.
get_vowel_positions(word) ==
    {i \in 0..(Len(word) - 1) : lower(word)[i + 1] \in UKRAINIAN_VOWELS}

\* First loop of extract_stress_indices (TXT): i runs over the raw word; a
\* character followed by a stress mark is recorded by its raw position and
\* the mark is skipped.
RECURSIVE stressed_char_positions(_, _, _)
stressed_char_positions(word, i, acc) ==
    IF i >= Len(word) THEN acc
    ELSE IF i + 1 < Len(word) /\ word[i + 2] = ACUTE
    THEN stressed_char_positions(word, i + 2, acc \cup {i})
    ELSE stressed_char_positions(word, i + 1, acc)

\* Second loop of extract_stress_indices (TXT): for every character that is
\* not a mark, if its raw position is in the set, its position in the clean
\* text is added to the same set.
RECURSIVE map_to_clean_text(_, _, _, _)
map_to_clean_text(word, i, char_index, acc) ==
    IF i >= Len(word) THEN acc
    ELSE IF word[i + 1] # ACUTE
    THEN map_to_clean_text(word, i + 1, char_index + 1,
                           IF i \in acc THEN acc \cup {char_index} ELSE acc)
    ELSE map_to_clean_text(word, i + 1, char_index, acc)

\* The vowel index (vowels counted from the left, 0-based) of every vowel of
\* clean_text whose position is in char_positions, ascending.
vowel_indices_at(clean_text, char_positions) ==
    LET vs == get_vowel_positions(clean_text)
    IN  SortedKeys({Cardinality({j \in vs : j < i}) : i \in vs \cap char_positions})

\* extract_stress_indices of the TXT parser.
txt_extract_stress_indices(word) ==
    LET positions == map_to_clean_text(word, 0, 0, stressed_char_positions(word, 0, {}))
    IN  vowel_indices_at(strip_stress_marks(word), positions)

\* extract_stress_indices of the KAIKKI parser: one walk over the form, a
\* vowel followed by the combining acute gives its vowel index.
kaikki_extract_stress_indices(form) ==
    LET vs == {i \in 0..(Len(form) - 1) : form[i + 1] \in UKRAINIAN_VOWELS}
        marked == {i \in vs : i + 1 < Len(form) /\ form[i + 2] = ACUTE}
    IN  SortedKeys({Cardinality({j \in vs : j < i}) : i \in marked})

EmittedForm(raw, form, stress_indices) ==
    [raw |-> raw, form |-> form, stress_indices |-> stress_indices]

\* parse_txt_to_unified_dict, the tokens of one lemma: a token without a
\* stress mark gets [0] if it has exactly one vowel and is passed over
\* otherwise; a form is added unless a form with the same stress_indices is
\* already there.
RECURSIVE txt_forms(_, _)
txt_forms(tokens, lemma_forms) ==
    IF tokens = <<>> THEN lemma_forms
    ELSE LET token_ == Head(tokens)
             extracted == txt_extract_stress_indices(token_)
             stress_indices ==
                 IF extracted # <<>> THEN extracted
                 ELSE IF Cardinality(get_vowel_positions(token_)) = 1 THEN <<0>>
                 ELSE <<>>
             known == \E i \in DOMAIN lemma_forms :
                          lemma_forms[i].stress_indices = stress_indices
         IN  txt_forms(Tail(tokens),
                 IF stress_indices = <<>> \/ known THEN lemma_forms
                 ELSE Append(lemma_forms,
                        EmittedForm(token_, strip_stress_marks(token_), stress_indices)))

\* parse_kaikki_to_unified_dict, the form strings of one word: a form
\* without stress is passed over, every other one is appended.
RECURSIVE kaikki_forms(_, _)
kaikki_forms(form_strs, word_entries) ==
    IF form_strs = <<>> THEN word_entries
    ELSE LET form_str == Head(form_strs)
             stress_indices == kaikki_extract_stress_indices(form_str)
         IN  kaikki_forms(Tail(form_strs),
                 IF stress_indices = <<>> THEN word_entries
                 ELSE Append(word_entries,
                        EmittedForm(form_str, strip_stress_marks(form_str), stress_indices)))

\* The stress_indices of a merged group taken as the concatenation of the
\* lists of its members.
RECURSIVE concat_stress(_)
concat_stress(group) ==
    IF group = <<>> THEN <<>>
    ELSE Head(group).stress_indices \o concat_stress(Tail(group))

merge_wordforms_concat(forms, mode) ==
    IF mode = "plain" THEN forms
    ELSE LET firsts == {i \in DOMAIN forms :
                          \A j \in 1..(i - 1) : forms[j].form # forms[i].form}
             group(i) == SelectSeq(forms, LAMBDA f : f.form = forms[i].form)
             merged_(i) == [forms[i] EXCEPT !.stress_indices = concat_stress(group(i))]
             order == SortedKeys(firsts)
         IN  [n \in DOMAIN order |-> merged_(order[n])]

\* merge_wordforms: for a lemma with variative or double stress the forms
\* with the same key (here: the same form string) become one form, the first
\* of the group, whose stress_indices are sorted(set) of the union; for any
\* other lemma the forms are returned as they are.
merge_wordforms(forms, mode) ==
    IF mode = "plain" THEN forms
    ELSE LET firsts == {i \in DOMAIN forms :
                          \A j \in 1..(i - 1) : forms[j].form # forms[i].form}
             all_stress(i) == UNION {Range(forms[j].stress_indices) :
                                       j \in {k \in DOMAIN forms : forms[k].form = forms[i].form}}
             merged_(i) == [forms[i] EXCEPT !.stress_indices = SortedKeys(all_stress(i))]
             order == SortedKeys(firsts)
         IN  [n \in DOMAIN order |-> merged_(order[n])]

\* parse_trie_to_unified_dict, the items of the value of one key: every item
\* is decoded, an item without vowel indices is passed over, and a form is
\* added unless a form with the same stress_indices is already there.
RECURSIVE trie_forms(_, _, _)
trie_forms(word, items, entry_forms) ==
    IF items = <<>> THEN [raises |-> FALSE, forms |-> entry_forms]
    ELSE LET decoded_ == char_positions_to_vowel_indices(word, Head(items))
             known == \E i \in DOMAIN entry_forms :
                          entry_forms[i].stress_indices = decoded_.vowel_indices
         IN  IF decoded_.raises THEN [raises |-> TRUE, forms |-> <<>>]
             ELSE trie_forms(word, Tail(items),
                     IF decoded_.vowel_indices = <<>> \/ known THEN entry_forms
                     ELSE Append(entry_forms,
                            EmittedForm(word, lower(word), decoded_.vowel_indices)))

\* One or two raw forms of a headword.
OneOrTwo(S) == {<<x>> : x \in S} \cup {<<x, y>> : x \in S, y \in S}

\* The accent positions of one item of a trie value.
ItemPool == OneOrTwo(0..MaxPos)

FormsInit ==
    /\ fsrc \in {"TXT", "KAIKKI", "TRIE"}
    /\ IF fsrc = "TRIE"
       THEN fin \in {[word |-> w, items |-> its] :
                        w \in {x \in DecodeWords : Len(x) <= MaxPos},
                        its \in OneOrTwo(ItemPool)}
       ELSE fin \in OneOrTwo(RawForms)
    /\ fmode \in IF fsrc = "KAIKKI" THEN {"plain", "merged"} ELSE {"plain"}
    /\ fout = [done |-> FALSE, raises |-> FALSE, forms |-> <<>>]
    /\ Idle("forms")

ParseTxtForms ==
    /\ fsrc = "TXT" /\ ~fout.done
    /\ fout' = [done |-> TRUE, raises |-> FALSE, forms |-> txt_forms(fin, <<>>)]
    /\ UNCHANGED <<fsrc, fin, fmode, notForms>>

ParseKaikkiForms ==
    /\ fsrc = "KAIKKI" /\ ~fout.done
    /\ fout' = [done |-> TRUE, raises |-> FALSE,
                forms |-> merge_wordforms(kaikki_forms(fin, <<>>), fmode)]
    /\ UNCHANGED <<fsrc, fin, fmode, notForms>>

ParseTrieForms ==
    /\ fsrc = "TRIE" /\ ~fout.done
    /\ fout' = [done |-> TRUE] @@ trie_forms(fin.word, fin.items, <<>>)
    /\ UNCHANGED <<fsrc, fin, fmode, notForms>>

FormsNext == ParseTxtForms \/ ParseKaikkiForms \/ ParseTrieForms

SpecForms == FormsInit /\ [][FormsNext]_vars

\* C24: every WordForm emitted by a parser or produced by merging has
\* stress_indices without duplicates, each of them below the number of
\* vowels of the form.
C24_StressIndicesValid ==
    \A n \in DOMAIN fout.forms :
        LET emitted_ == fout.forms[n]
        IN  /\ Cardinality(Range(emitted_.stress_indices)) = Len(emitted_.stress_indices)
            /\ \A v \in Range(emitted_.stress_indices) :
                   v < Cardinality(get_vowel_positions(emitted_.form))

\* merge_wordforms made one form with two stresses out of two spellings of
\* the same form, and the form has exactly two vowels.
C24_Witness ==
    /\ fsrc = "KAIKKI" /\ fmode = "merged" /\ fout.done
    /\ Len(fin) = 2 /\ fin[1] # fin[2]
    /\ Len(fout.forms) = 1
    /\ fout.forms[1].stress_indices = <<0, 1>>
    /\ Cardinality(get_vowel_positions(fout.forms[1].form)) = 2

\* C30: for every stressed token the TXT parser's extraction gives exactly
\* the vowel indices, counted over the text without marks, of the vowels
\* that are immediately followed by a stress mark.
C30_TxtExtractionExact ==
    (fsrc = "TXT" /\ fout.done) =>
        \A n \in DOMAIN fout.forms :
            LET raw == fout.forms[n].raw
                marks_before(i) == Cardinality({j \in 1..i : raw[j] = ACUTE})
                stressed == {i - 1 - marks_before(i) :
                                i \in {k \in 1..(Len(raw) - 1) :
                                          /\ raw[k] \in UKRAINIAN_VOWELS
                                          /\ raw[k + 1] = ACUTE}}
            IN  ACUTE \in Range(raw) =>
                    fout.forms[n].stress_indices =
                        vowel_indices_at(strip_stress_marks(raw), stressed)

(***************************************************************************)
(* SQLExporter.export_streaming and _insert_batches, one insert batch: the *)
(* word_form rows and the feature rows that refer to them.                 *)
(***************************************************************************)
\* Most features of one WordForm.
MaxFeats == 2

\* An entry is the list of its forms; a form is given by its number of
\* features (feats of a form are numbered 1..n).
SqlEntries ==
    UNION {[1..n -> 0..MaxFeats] : n \in 1..MaxForms}

SqlInit ==
    /\ sqlIn \in OneOrTwo(SqlEntries)
    /\ sqlOut = [done |-> FALSE, raises |-> FALSE, features |-> <<>>]
    /\ Idle("sql")

\* Position in word_form_batch of form f of entry e: every form of every
\* entry is appended in order.
RowOf(batch, e, f) ==
    LET before(n) == IF n = 1 THEN 0 ELSE Len(batch[1])
    IN  before(e) + f

\* The rowids INSERT INTO word_form returns for the batch, row by row
\* (cur.lastrowid of a table that was empty before).
word_form_ids(batch) ==
    LET count == IF Len(batch) = 1 THEN Len(batch[1]) ELSE Len(batch[1]) + Len(batch[2])
    IN  [r \in 1..count |-> r]

\* feature_batch: after the loop over the forms of an entry,
\* feats = form_dict.get('feats', {}) reads the form the loop ended on, and
\* one row (None, k, v) per feature is appended.  A row is named here by the
\* form it was read from and the number of the feature.
RECURSIVE feature_batch(_, _)
feature_batch(batch, e) ==
    IF e > Len(batch) THEN <<>>
    ELSE LET last_form == Len(batch[e])
             feats == batch[e][last_form]
         IN  [k \in 1..feats |-> [src |-> RowOf(batch, e, last_form), key |-> k]]
             \o feature_batch(batch, e + 1)

\* assign_ids(batch): its idx (id_idx here) starts at 0; every row gets
\* word_form_ids[idx], and idx moves on whenever len(out) % len(word_form_ids) == 0.  Indexing past
\* the list raises IndexError.
RECURSIVE assign_ids(_, _, _, _)
assign_ids(ids, batch, out, id_idx) ==
    IF batch = <<>> THEN [raises |-> FALSE, features |-> out]
    ELSE IF id_idx >= Len(ids) THEN [raises |-> TRUE, features |-> <<>>]
    ELSE LET row == [word_form_id |-> ids[id_idx + 1],
                     src |-> Head(batch).src, key |-> Head(batch).key]
             grown == Append(out, row)
         IN  assign_ids(ids, Tail(batch), grown,
                        IF Len(grown) % Len(ids) = 0 THEN id_idx + 1 ELSE id_idx)

\* The export of the batch: the word_form rows are inserted, then the
\* feature rows with the ids assign_ids gives them.
SqlExport ==
    /\ ~sqlOut.done
    /\ sqlOut' = [done |-> TRUE]
                 @@ assign_ids(word_form_ids(sqlIn), feature_batch(sqlIn, 1), <<>>, 0)
    /\ UNCHANGED <<sqlIn, notSql>>

SqlNext == SqlExport

SpecSql == SqlInit /\ [][SqlNext]_vars

\* C29: for every batch the features of every WordForm are exported as rows
\* that carry the id of the word_form row made from that WordForm, and the
\* assignment of ids never reads past the ids of the batch.
C29_FeatureRowsReferToOwnForm ==
    sqlOut.done =>
        /\ ~sqlOut.raises
        /\ \A i \in DOMAIN sqlOut.features :
               sqlOut.features[i].word_form_id = sqlOut.features[i].src
        /\ \A e \in DOMAIN sqlIn : \A f \in DOMAIN sqlIn[e] : \A k \in 1..sqlIn[e][f] :
               \E i \in DOMAIN sqlOut.features :
                   /\ sqlOut.features[i].src = RowOf(sqlIn, e, f)
                   /\ sqlOut.features[i].key = k
                   /\ sqlOut.features[i].word_form_id = RowOf(sqlIn, e, f)

\* C10: with several candidates the resolver returns the maximum score and
\* the first candidate, in store order, that reaches it; for two NOUN
\* candidates with stress [0] and [1] and a NOUN token without features both
\* score 0.4 and the first is selected with confidence fallback.
C10_MaxScoreFirstOfTies ==
    (result.resolved /\ Len(candidates) >= 2) =>
        LET score(i) == calculate_morph_match(token, candidates[i])
            top == CHOOSE i \in DOMAIN candidates :
                      \A j \in DOMAIN candidates :
                          score(i) > score(j) \/ (score(i) = score(j) /\ i <= j)
        IN  /\ result.stress_match_score = score(top)
            /\ result.selected = top
            /\ result.stress_position =
                   IF candidates[top].stress_variants = <<>> THEN <<>>
                   ELSE <<candidates[top].stress_variants[1]>>
            /\ (/\ token.pos = "NOUN" /\ token.morph = EmptyMeta
                /\ candidates = <<Form(<<0>>, {"NOUN"}, EmptyMeta),
                                  Form(<<1>>, {"NOUN"}, EmptyMeta)>>) =>
                   /\ result.stress_match_score = 40
                   /\ result.stress_position = <<0>>
                   /\ result.stress_confidence = "fallback"

\* The two NOUN candidates tie at 0.4 and the first one was selected.
C10_Witness ==
    /\ result.resolved
    /\ token.pos = "NOUN" /\ token.morph = EmptyMeta
    /\ candidates = <<Form(<<0>>, {"NOUN"}, EmptyMeta), Form(<<1>>, {"NOUN"}, EmptyMeta)>>
    /\ calculate_morph_match(token, candidates[1]) = calculate_morph_match(token, candidates[2])
    /\ result.selected = 1
    /\ result.stress_position = <<0>>
    /\ result.stress_confidence = "fallback"

\* C11: the score of a candidate is 0.4 when the token's POS is among the
\* candidate's POS values (else 0) plus 0.4 times the fraction of the
\* token's features the candidate has with the same value, and the second
\* term is 0 for a token without features; the score the result carries is
\* the score of one of the candidates.
C11_ScoreFormula ==
    (result.resolved /\ Len(candidates) >= 2) =>
        /\ \A i \in DOMAIN candidates :
               LET c == candidates[i]
                   score == calculate_morph_match(token, c)
                   posTerm == IF token.pos \in c.pos THEN 40 ELSE 0
                   n == Cardinality(DOMAIN token.morph)
                   shared == Cardinality({f \in DOMAIN token.morph :
                                 f \in DOMAIN c.feats /\ token.morph[f] \in c.feats[f]})
               IN  IF n = 0 THEN score = posTerm
                   ELSE (score - posTerm) * n = 40 * shared
        /\ \E i \in DOMAIN candidates :
               result.stress_match_score = calculate_morph_match(token, candidates[i])

\* A NOUN token with two features met a NOUN candidate that has one of them
\* and a candidate that has none: the result carries 0.4 + 0.4 * 1/2.
C11_Witness ==
    /\ result.resolved
    /\ token.pos = "NOUN"
    /\ token.morph = ("Case" :> "Nom") @@ ("Number" :> "Sing")
    /\ candidates = <<Form(<<0>>, {"VERB"}, EmptyMeta),
                      Form(<<1>>, {"NOUN"}, "Case" :> {"Nom"})>>
    /\ result.stress_match_score = 60
    /\ result.selected = 2

\* C12: when the lookup returns exactly one candidate the result carries
\* that candidate's first stress index, confidence exact and score 1.0,
\* whatever the token's POS and features are.
C12_SingleCandidateExact ==
    (result.resolved /\ Len(candidates) = 1) =>
        /\ candidates[1].stress_variants # <<>>
        /\ result.stress_position = <<candidates[1].stress_variants[1]>>
        /\ result.stress_confidence = "exact"
        /\ result.stress_match_score = 100

\* A VERB token in the genitive met a single NOUN candidate in the
\* nominative and still got its stress with confidence exact.
C12_Witness ==
    /\ result.resolved
    /\ token.pos = "VERB" /\ token.morph = "Case" :> "Gen"
    /\ candidates = <<Form(<<1>>, {"NOUN"}, "Case" :> {"Nom"})>>
    /\ calculate_morph_match(token, candidates[1]) = 0
    /\ result.stress_position = <<1>>
    /\ result.stress_confidence = "exact"
    /\ result.stress_match_score = 100

\* C13: resolve never raises, whatever the token (also one without POS or
\* without features) and whatever the candidate list, and without
\* candidates the result is position none, confidence none, score 0.0.
C13_NeverRaises ==
    result.resolved =>
        /\ ~result.raises
        /\ candidates = <<>> =>
               /\ result.stress_position = <<>>
               /\ result.stress_confidence = "none"
               /\ result.stress_match_score = 0

\* A token without POS and without features was resolved against an empty
\* lookup result.
C13_Witness ==
    /\ result.resolved /\ ~result.raises
    /\ token.pos = "" /\ token.morph = EmptyMeta
    /\ candidates = <<>>
    /\ result.stress_confidence = "none"

\* C14: no result carries confidence exact, partial or fallback together
\* with an absent stress position.
C14_PositionOrNone ==
    result.resolved =>
        (result.stress_position # <<>> \/ result.stress_confidence = "none")

\* C15: the display form is the original surface text of the token with the
\* combining mark inserted right after the vowel of the chosen index (and
\* the surface text itself when the index is out of range).
C15_DisplayFromSurfaceText ==
    (result.resolved /\ result.stress_position # <<>>) =>
        LET pattern == result.stress_pattern
            vowels == SortedKeys({i \in DOMAIN token.text :
                                     lower(token.text)[i] \in VOWELS})
            k == result.stress_position[1] + 1
        IN  IF k > Len(vowels) THEN pattern = token.text
            ELSE pattern = SubSeq(token.text, 1, vowels[k]) \o <<ACUTE>>
                           \o SubSeq(token.text, vowels[k] + 1, Len(token.text))

\* C18: in every entry of a merged store possible_stress_indices holds
\* exactly the sorted stress-index tuples that the WordForms of the entry's
\* final form list carry, each of them once.
C18_PsiMatchesFinalForms ==
    \A st \in {merged, regrouped} : \A k \in DOMAIN st :
        LET psi == st[k].possible_stress_indices
            forms == st[k].forms
        IN  /\ {sorted(psi[i]) : i \in DOMAIN psi}
                   = {sorted(forms[i].stress_indices) : i \in DOMAIN forms}
            /\ \A i, j \in DOMAIN psi : sorted(psi[i]) = sorted(psi[j]) => i = j

\* Every store that holds the first headword lists one stress tuple for it
\* and the merged entry lists two.
C18_Witness ==
    /\ grouping = "flat"
    /\ 1 \in DOMAIN merged
    /\ Len(merged[1].possible_stress_indices) = 2
    /\ Cardinality(Holders(1)) >= 2
    /\ \A i \in Holders(1) : Len(inputs[i][1].possible_stress_indices) = 1

\* C19: in every entry of a merged store no WordForm covers a WordForm at
\* another position of the form list.
C19_NoCoveringDuplicates ==
    \A st \in {merged, regrouped} : \A k \in DOMAIN st :
        \A i, j \in DOMAIN st[k].forms :
            i # j => ~covers(st[k].forms[i], st[k].forms[j])

====
